---------------------------- MODULE Spec2Model ----------------------------
(***************************************************************************)
(* A model of the variation-graph genotyper of src/src/genotyper.cpp.      *)
(*                                                                         *)
(* The module holds several specifications over one set of variables, one  *)
(* per part of the program:                                                *)
(*   SpecPaths  Genotyper::get_paths_through_site (allele enumeration)     *)
(*   SpecGeno   Genotyper::genotype_site (diploid genotyping, supports)    *)
(*   SpecRun    Genotyper::run (the OpenMP task per site and its output)   *)
(* A specification leaves the variables of the other parts at their idle   *)
(* values.                                                                 *)
(*                                                                         *)
(* Strings are sequences of one-letter strings.  Log probabilities are     *)
(* fixed-point integers in units of 1/1000 nat (the code uses doubles).    *)
(***************************************************************************)
EXTENDS Integers, Sequences, FiniteSets, TLC

VARIABLES
    \* ---- allele enumeration (get_paths_through_site)
    paths,            \* graph.paths: path name -> list of Mappings
    site,             \* the Site: start, end (NodeTraversals), contents
    min_recurrence,   \* Genotyper::min_recurrence
    order,            \* the order in which each path's set<Mapping*> on the start node was iterated
    results,          \* map<string, pair<list<NodeTraversal>, int>> results
    to_return,        \* the vector<list<NodeTraversal>> returned
    pc,               \* where the call is: "start" or "done" ("idle" in the other specifications)
    given,            \* the Site as the site finder gave it to run (<<>> where run is not modelled)
    \* ---- genotyping (genotype_site)
    num_alleles,      \* superbubble_paths.size()
    reads,            \* the affinities map, in iteration order: per read its qualities and Affinity vector
    use_mapq,         \* Genotyper::use_mapq
    het_prior_logprob,\* Genotyper::het_prior_logprob
    locus,            \* the Locus returned
    gpc,              \* "start" or "done" ("idle" in the other specifications)
    \* ---- the driver (run)
    output_mode,      \* "json", "vcf" or "protobuf" (output_json / output_vcf)
    site_kind,        \* per site: what its computation will find
    task,             \* per site: the position of its OpenMP task
    thread_of,        \* per site: the thread that runs its task (0: none yet)
    critical,         \* per named critical section: the site task inside it (0: free)
    writing,          \* the set of site tasks with a write to cout in progress
    cout,             \* the records written to the output stream, in order
    buffer,           \* vector<vector<Locus>> buffer: per thread, the loci not yet written
    aborted,          \* the process was terminated (failed assert, uncaught exception)
    rpc,              \* "parallel" or "done" ("idle" in the other specifications)
    \* ---- the count of affinities (run, lines 113 and 227-230)
    total_affinities, \* size_t total_affinities
    affinity_sizes,   \* per site: the sizes of the Affinity vectors of its affinities map, in map order
    added,          \* per site: the entries of its affinities map already added
    loaded,           \* per site: the value of total_affinities its += read
    \* ---- variant records (start_vcf, locus_to_variant)
    superbubble_paths,\* the alleles of the site genotyped, which genotype_site copies to the Locus
    index,            \* the ReferenceIndex: sequence, byId
    contig_name,      \* run's contig_name ("" when none was given)
    length_override,  \* run's length_override
    vcf_header,       \* what write_vcf_header wrote
    variant,          \* what locus_to_variant came to: its outcome and the record
    vpc               \* "init", "header", "done" ("idle" in the other specifications)

pathVars == <<paths, site, min_recurrence, order, results, to_return, pc, given>>
genoVars == <<num_alleles, reads, use_mapq, het_prior_logprob, locus, gpc>>
runVars  == <<output_mode, site_kind, task, thread_of, critical, writing, cout, buffer, aborted, rpc>>
countVars == <<total_affinities, affinity_sizes, added, loaded>>
vcfVars  == <<superbubble_paths, index, contig_name, length_override, vcf_header, variant, vpc>>
moreVars == <<countVars, vcfVars>>
vars     == <<pathVars, genoVars, runVars, moreVars>>

(***************************************************************************)
(* Bounds of the model.                                                    *)
(***************************************************************************)
MaxMappings == 9     \* most mappings of all embedded paths together
MaxAlleles == 2      \* most alleles handed to genotype_site
MaxReads   == 2      \* most reads handed to genotype_site
NumSites   == 3      \* sites found by the site finder
ThreadCount == 2     \* get_thread_count()
BufferLimit == 2     \* loci a thread buffers before write_buffered writes (100 at line 259)
MaxCounted == 1      \* most entries of a site's affinities map when the affinities are counted
MaxVcfReads == 1     \* most reads of the site that is turned into a variant record
MaxTaskMappings == 6 \* most mappings of all embedded paths together, for the task of a site
MaxTaskReads == 1    \* most reads of the site whose task is followed

(***************************************************************************)
(* Generic helpers.                                                        *)
(***************************************************************************)
Range(f) == {f[x] : x \in DOMAIN f}

\* all orders in which the elements of a finite set can be iterated
Perms(S) == {f \in [1..Cardinality(S) -> S] : \A i, j \in 1..Cardinality(S) : f[i] = f[j] => i = j}

RECURSIVE SumSeq(_)
SumSeq(s) == IF s = <<>> THEN 0 ELSE Head(s) + SumSeq(Tail(s))

\* the ascending sequence of a finite set of integers
RECURSIVE Ascending(_)
Ascending(S) ==
    IF S = {} THEN <<>>
    ELSE LET m == CHOOSE x \in S : \A y \in S : x <= y
         IN  <<m>> \o Ascending(S \ {m})

(***************************************************************************)
(* The graph: nodes with their sequences, and edges.                       *)
(* One site: a bubble between node 1 and node 5 with three branches, two   *)
(* of which (nodes 2 and 3) carry the same base, and an edge from the end  *)
(* back to the start, so that an embedded path can pass the site twice.    *)
(***************************************************************************)
NodeIds == {1, 2, 3, 4, 5}

\* graph.get_node(id)->sequence()
NodeSequence(id) ==
    CASE id = 1 -> <<"A">>
      [] id = 2 -> <<"C">>
      [] id = 3 -> <<"C">>
      [] id = 4 -> <<"G">>
      [] id = 5 -> <<"T">>
      [] id = 6 -> <<"X">>      \* a node with a character that is no base (variant records only)

\* the edges of the graph, as (from, to) in the forward orientation
Edges == {<<1, 2>>, <<1, 3>>, <<1, 4>>, <<2, 5>>, <<3, 5>>, <<4, 5>>, <<5, 1>>}

Complement(c) ==
    CASE c = "A" -> "T"
      [] c = "T" -> "A"
      [] c = "C" -> "G"
      [] c = "G" -> "C"
      [] OTHER   -> "N"

\* vg::reverse_complement
reverse_complement(seq) == [i \in 1..Len(seq) |-> Complement(seq[Len(seq) + 1 - i])]

\* the order of characters in a std::string comparison
CharRank(c) ==
    CASE c = "A" -> 1
      [] c = "C" -> 2
      [] c = "G" -> 3
      [] c = "N" -> 4
      [] c = "T" -> 5
      [] c = "X" -> 6

\* std::string operator< : lexicographic
RECURSIVE StringLess(_, _)
StringLess(a, b) ==
    IF b = <<>> THEN FALSE
    ELSE IF a = <<>> THEN TRUE
    ELSE IF CharRank(Head(a)) # CharRank(Head(b)) THEN CharRank(Head(a)) < CharRank(Head(b))
    ELSE StringLess(Tail(a), Tail(b))

NodeTraversal(id, backward) == [node |-> id, backward |-> backward]

Mapping(id, is_reverse) == [node_id |-> id, is_reverse |-> is_reverse]

\* Genotyper::traversals_to_string
RECURSIVE traversals_to_string(_)
traversals_to_string(path) ==
    IF path = <<>> THEN <<>>
    ELSE (IF Head(path).backward THEN reverse_complement(NodeSequence(Head(path).node))
          ELSE NodeSequence(Head(path).node))
         \o traversals_to_string(Tail(path))

(***************************************************************************)
(* Embedded paths.  A Mapping* is a (path name, index) pair; the null      *)
(* pointer is index 0.  Path names are 1..n, in the order of std::map.     *)
(***************************************************************************)
PathNames == {1, 2}

nullptr == 0

\* graph.paths.traverse_left: the previous mapping of the path, or null
traverse_left(name, idx) == IF idx <= 1 THEN nullptr ELSE idx - 1

\* graph.paths.traverse_right: the next mapping of the path, or null
traverse_right(name, idx) == IF idx >= Len(paths[name]) THEN nullptr ELSE idx + 1

\* graph.paths.get_node_mapping(node)[name]: the mappings of path name on the node
MappingsOn(node, name) == {i \in 1..Len(paths[name]) : paths[name][i].node_id = node}

\* graph.paths.has_node_mapping(node)
has_node_mapping(node) == \E name \in PathNames : MappingsOn(node, name) # {}

\* the walks of the graph with n nodes, forward
RECURSIVE WalksOfLen(_)
WalksOfLen(n) ==
    IF n = 1 THEN {<<v>> : v \in NodeIds}
    ELSE {Append(p[1], p[2]) :
             p \in {q \in WalksOfLen(n - 1) \X NodeIds : <<q[1][n - 1], q[2]>> \in Edges}}

\* a walk read on the forward strand, and the same walk read on the reverse strand
ForwardPath(w) == [i \in 1..Len(w) |-> Mapping(w[i], FALSE)]
ReversePath(w) == [i \in 1..Len(w) |-> Mapping(w[Len(w) + 1 - i], TRUE)]

\* the embedded paths (reads, reference) the model draws from: every walk of the
\* graph, read on either strand
EmbeddedPaths ==
    LET walks == UNION {WalksOfLen(n) : n \in 1..(MaxMappings - Cardinality(PathNames) + 1)}
    IN  {ForwardPath(w) : w \in walks} \cup {ReversePath(w) : w \in walks}

\* the sets of named embedded paths of the model
EmbeddedPathSets ==
    {ps \in [PathNames -> EmbeddedPaths] :
        SumSeq([n \in 1..Cardinality(PathNames) |-> Len(ps[n])]) <= MaxMappings}

\* the site of the graph, as the site finder gives it from either side
Sites ==
    {[start |-> NodeTraversal(1, FALSE), end |-> NodeTraversal(5, FALSE), contents |-> NodeIds],
     [start |-> NodeTraversal(5, TRUE), end |-> NodeTraversal(1, TRUE), contents |-> NodeIds]}

\* the two sites of the cycle 1 -> {2, 3, 4} -> 5 -> 1 with the nodes each one
\* contains: the bubble from node 1 to node 5, and the edge from node 5 back
\* to node 1; each from either side
ContentSites ==
    Sites \cup
    {[start |-> NodeTraversal(5, FALSE), end |-> NodeTraversal(1, FALSE), contents |-> {1, 5}],
     [start |-> NodeTraversal(1, TRUE), end |-> NodeTraversal(5, TRUE), contents |-> {1, 5}]}

\* the same sites inside out (start and end exchanged, orientations kept), as
\* the site finder can give them (lines 151-162 and 409-411)
InsideOutSites ==
    {[start |-> s.end, end |-> s.start, contents |-> s.contents] : s \in ContentSites}

MinRecurrenceChoices == {1, 2}

\* Genotyper::max_path_search_steps
max_path_search_steps == 4

(***************************************************************************)
(* Genotyper::get_paths_through_site                                       *)
(***************************************************************************)
\* a faulty variant of the definition that follows it: a known sequence is counted only when the walk
\* took the very node list stored for it
RecordResultSameListOnly(res, seq, path_traversed) ==
    IF seq \in DOMAIN res
    THEN IF res[seq].first = path_traversed
         THEN [res EXCEPT ![seq] = [first |-> @.first, second |-> @.second + 1]]
         ELSE res
    ELSE res @@ (seq :> [first |-> path_traversed, second |-> 1])

\* lines 495-507: count the sequence if it is known, add it with its traversals if not
RecordResult(res, seq, path_traversed) ==
    IF seq \in DOMAIN res
    THEN [res EXCEPT ![seq] = [first |-> @.first, second |-> @.second + 1]]
    ELSE res @@ (seq :> [first |-> path_traversed, second |-> 1])

\* line 465
TraversalDirection(name, idx) == paths[name][idx].is_reverse # site.start.backward

\* line 470
ExpectedEndOrientation(traversal_direction) == site.end.backward # traversal_direction

\* a faulty variant of the definition that follows it: the visit keeps the mapping's own orientation
VisitOfNoFlip(mapping, traversal_direction) ==
    NodeTraversal(mapping.node_id, mapping.is_reverse)

\* line 487: the NodeTraversal pushed for a mapping
VisitOf(mapping, traversal_direction) ==
    NodeTraversal(mapping.node_id, mapping.is_reverse # traversal_direction)

\* a faulty variant of the definition that follows it: the sequence is oriented by the direction of the walk
OrientedSequenceByDirection(visit, traversal_direction) ==
    IF traversal_direction THEN reverse_complement(NodeSequence(visit.node))
                           ELSE NodeSequence(visit.node)

\* lines 490-491: the node's sequence, in the orientation of the visit
OrientedSequence(visit, traversal_direction) ==
    IF visit.backward THEN reverse_complement(NodeSequence(visit.node))
                      ELSE NodeSequence(visit.node)

\* a faulty variant of the definition that follows it: the walk goes on to the end of the path
WalkGoesOn_Unbounded(idx, traversal_count) == idx # nullptr

\* line 478: while(mapping != nullptr && traversal_count < max_path_search_steps)
WalkGoesOn(idx, traversal_count) ==
    idx # nullptr /\ traversal_count < max_path_search_steps

\* lines 478-524: the while loop over the mappings of one embedded path
RECURSIVE WalkLoop(_, _, _, _, _, _, _)
WalkLoop(name, idx, traversal_direction, traversal_count, path_traversed, allele_stream, res) ==
    IF ~WalkGoesOn(idx, traversal_count) THEN res
    ELSE LET mapping == paths[name][idx]
             visit   == VisitOf(mapping, traversal_direction)
             walked  == Append(path_traversed, visit)
             seq     == allele_stream \o OrientedSequence(visit, traversal_direction)
         IN  IF mapping.node_id = site.end.node
                /\ mapping.is_reverse = ExpectedEndOrientation(traversal_direction)
             THEN RecordResult(res, seq, walked)
             ELSE WalkLoop(name,
                           IF traversal_direction THEN traverse_left(name, idx)
                                                  ELSE traverse_right(name, idx),
                           traversal_direction, traversal_count + 1, walked, seq, res)

\* lines 450-527: each mapping of one path on the start node, in the order given
RECURSIVE WalkMappings(_, _, _)
WalkMappings(name, mappings, res) ==
    IF mappings = <<>> THEN res
    ELSE WalkMappings(name, Tail(mappings),
                      WalkLoop(name, Head(mappings), TraversalDirection(name, Head(mappings)),
                               0, <<>>, <<>>, res))

\* lines 440-528: the paths that visit the start node, by name; those that never
\* visit the end node are skipped (line 443)
RECURSIVE WalkPaths(_, _, _)
WalkPaths(names, ord, res) ==
    IF names = <<>> THEN res
    ELSE LET name == Head(names)
         IN  WalkPaths(Tail(names), ord,
                       IF MappingsOn(site.start.node, name) = {} \/ MappingsOn(site.end.node, name) = {}
                       THEN res
                       ELSE WalkMappings(name, ord[name], res))

\* lines 428-530
ComputeResults(ord) ==
    IF has_node_mapping(site.start.node) /\ has_node_mapping(site.end.node)
    THEN WalkPaths(Ascending(PathNames), ord, <<>>)
    ELSE <<>>

\* the keys of a std::map<string, ...> in iteration order
RECURSIVE SortedKeys(_)
SortedKeys(S) ==
    IF S = {} THEN <<>>
    ELSE LET m == CHOOSE x \in S : \A y \in S \ {x} : StringLess(x, y)
         IN  <<m>> \o SortedKeys(S \ {m})

\* line 541: the recurrence filter
Recurrent(entry) == ~(entry.second < min_recurrence)

\* lines 533-553
RECURSIVE CollectResults(_, _)
CollectResults(res, keys) ==
    IF keys = <<>> THEN <<>>
    ELSE (IF Recurrent(res[Head(keys)]) THEN <<res[Head(keys)].first>> ELSE <<>>)
         \o CollectResults(res, Tail(keys))

\* the orders in which the code may meet the mappings on the start node:
\* a set<Mapping*> is iterated in the order of the pointers
MappingOrders ==
    {ord \in [PathNames -> UNION {Perms(MappingsOn(site.start.node, n)) : n \in PathNames}] :
        \A n \in PathNames : ord[n] \in Perms(MappingsOn(site.start.node, n))}

\* the order by position along the path
PathOrder == [n \in PathNames |-> Ascending(MappingsOn(site.start.node, n))]

GetPathsThroughSite ==
    /\ pc = "start"
    /\ \E ord \in MappingOrders :
          /\ order' = ord
          /\ results' = ComputeResults(ord)
          /\ to_return' = CollectResults(results', SortedKeys(DOMAIN results'))
    /\ pc' = "done"
    /\ UNCHANGED <<paths, site, min_recurrence, given, genoVars, runVars, moreVars>>

(***************************************************************************)
(* Log probabilities, in units of 1/1000 nat.                              *)
(***************************************************************************)
\* 1000 * ln(n), rounded
LnMilli(n) ==
    CASE n = 1 -> 0     [] n = 2 -> 693   [] n = 3 -> 1099  [] n = 4 -> 1386
      [] n = 5 -> 1609  [] n = 6 -> 1792  [] n = 7 -> 1946  [] n = 8 -> 2079
      [] n = 9 -> 2197  [] n = 10 -> 2303 [] n = 11 -> 2398 [] n = 12 -> 2485
      [] n = 13 -> 2565 [] n = 14 -> 2639 [] n = 15 -> 2708 [] n = 16 -> 2773
      [] n = 17 -> 2833 [] n = 18 -> 2890 [] n = 19 -> 2944 [] n = 20 -> 2996

RECURSIVE LnFactorial(_)
LnFactorial(n) == IF n <= 1 THEN 0 ELSE LnMilli(n) + LnFactorial(n - 1)

\* prob_to_logprob of the fraction num/den
prob_to_logprob(num, den) == LnMilli(num) - LnMilli(den)

\* phred_to_logprob: -q * ln(10) / 10
phred_to_logprob(q) == -((q * 2303) \div 10)

\* logprob_invert: ln(1 - e^x), tabulated where the model needs it
logprob_invert(x) ==
    CASE x = -6908  -> -1       \* 1 - 0.001
      [] x = -6909  -> -1       \* 1 - 10^-3
      [] x = -4605  -> -10      \* 1 - 0.01
      [] x = -13818 -> 0        \* 1 - 10^-6
      [] x = -3454  -> -32      \* 1 - 10^-1.5
      [] x = -1     -> -6908    \* 1 - 0.999
      [] x = -32    -> -3458    \* 1 - 0.9685

\* multinomial_sampling_prob_ln for two equally likely outcomes:
\* ln( (f + r)! / (f! r!) * 0.5^(f + r) )
multinomial_sampling_prob_ln(forward_count, reverse_count) ==
    LnFactorial(forward_count + reverse_count) - LnFactorial(forward_count)
        - LnFactorial(reverse_count) - (forward_count + reverse_count) * LnMilli(2)

(***************************************************************************)
(* Genotyper::genotype_site and what it calls.                             *)
(* A read is [quality, mapping_quality, affinities]: the base qualities    *)
(* left by get_qualities_in_site, the mapping quality, and one Affinity    *)
(* [consistent, is_reverse] per allele.  Alleles are numbered from 0.      *)
(***************************************************************************)
\* Genotyper::default_sequence_quality
default_sequence_quality == 15

\* Genotyper::Affinity; affinity, the weight, is 1 or 0 in what get_affinities_fast makes
Affinity(consistent, is_reverse) ==
    [consistent |-> consistent, is_reverse |-> is_reverse,
     affinity |-> IF consistent THEN 1 ELSE 0]

\* consistency.at(allele)
AffinityAt(read, allele) == read.affinities[allele + 1]

\* Genotyper::alignment_qual_score: the default, or the rounded mean quality
alignment_qual_score(read) ==
    IF read.quality = <<>> THEN default_sequence_quality
    ELSE (2 * SumSeq(read.quality) + Len(read.quality)) \div (2 * Len(read.quality))

\* a faulty variant of the definition that follows it: an allele that the genotype holds twice
\* is counted once
ConsistentAlleles_Distinct(genotype, read) ==
    Cardinality({a \in Range(genotype) : AffinityAt(read, a).consistent})

\* lines 909-922, for one read: the number of genotype alleles (with multiplicity)
\* the read is consistent with
ConsistentAlleles(genotype, read) ==
    Cardinality({k \in 1..Len(genotype) : AffinityAt(read, genotype[k]).consistent})

\* lines 898-922: strand_count_by_allele_and_orientation after all reads; one
\* increment per read and per position of the genotype that holds the allele
StrandCount(genotype, rds, allele, reverse) ==
    SumSeq([r \in 1..Len(rds) |->
        Cardinality({k \in 1..Len(genotype) :
            /\ genotype[k] = allele
            /\ AffinityAt(rds[r], allele).consistent
            /\ AffinityAt(rds[r], allele).is_reverse = reverse})])

\* lines 931-948: the log probability that a read is wrong
LogprobWrong(read) ==
    IF use_mapq
    THEN logprob_invert(logprob_invert(phred_to_logprob(read.mapping_quality))
                        + logprob_invert(phred_to_logprob(alignment_qual_score(read))))
    ELSE phred_to_logprob(alignment_qual_score(read))

\* a faulty variant of the definition that follows it: a read that fits no allele
\* of the genotype costs nothing
ReadTerm_WrongIsFree(genotype, read) ==
    IF ConsistentAlleles(genotype, read) = 0 THEN 0
    ELSE prob_to_logprob(ConsistentAlleles(genotype, read), Len(genotype))

\* lines 900-966: the term of one read
ReadTerm(genotype, read) ==
    IF ConsistentAlleles(genotype, read) = 0 THEN LogprobWrong(read)
    ELSE prob_to_logprob(ConsistentAlleles(genotype, read), Len(genotype))

\* lines 968-995: one multinomial term per allele with an entry in the strand counts
StrandsAsSpecified(genotype, rds) ==
    LET counted == {a \in Range(genotype) :
                       StrandCount(genotype, rds, a, FALSE) + StrandCount(genotype, rds, a, TRUE) > 0}
        alleles == Ascending(counted)
    IN  SumSeq([k \in 1..Len(alleles) |->
            multinomial_sampling_prob_ln(StrandCount(genotype, rds, alleles[k], FALSE),
                                         StrandCount(genotype, rds, alleles[k], TRUE))])

\* Genotyper::get_genotype_log_likelihood
get_genotype_log_likelihood(genotype, rds) ==
    SumSeq([r \in 1..Len(rds) |-> ReadTerm(genotype, rds[r])]) + StrandsAsSpecified(genotype, rds)

\* a faulty variant of the definition that follows it: the priors of het and hom are exchanged
get_genotype_log_prior_swapped(genotype) ==
    IF genotype[1] # genotype[2] THEN logprob_invert(het_prior_logprob)
    ELSE het_prior_logprob

\* Genotyper::get_genotype_log_prior
get_genotype_log_prior(genotype) ==
    IF genotype[1] # genotype[2] THEN het_prior_logprob
    ELSE logprob_invert(het_prior_logprob)

\* lines 1200-1202: the genotypes in the order of the two loops
RECURSIVE GenotypeVectors(_, _, _)
GenotypeVectors(allele1, allele2, n) ==
    IF allele1 >= n THEN <<>>
    ELSE IF allele2 > allele1 THEN GenotypeVectors(allele1 + 1, 0, n)
    ELSE <<(<<allele1, allele2>>)>> \o GenotypeVectors(allele1, allele2 + 1, n)

\* lines 1206-1238: the Genotype object of one combination
ScoredGenotype(genotype_vector, rds) ==
    LET log_likelihood == get_genotype_log_likelihood(genotype_vector, rds)
        log_prior      == get_genotype_log_prior(genotype_vector)
    IN  [allele         |-> genotype_vector,
         log_likelihood |-> log_likelihood,
         log_prior      |-> log_prior,
         log_posterior  |-> log_likelihood + log_prior]

\* a faulty variant of the definition that follows it: the comparison of an ascending sort
PosteriorBefore_Ascending(a, b) == a.log_posterior < b.log_posterior

\* line 1244: the comparison handed to sort
PosteriorBefore(a, b) == a.log_posterior > b.log_posterior

\* std::sort on a short vector: insertion sort (libstdc++ below 16 elements)
RECURSIVE InsertSorted(_, _)
InsertSorted(sorted, g) ==
    IF sorted = <<>> THEN <<g>>
    ELSE IF PosteriorBefore(g, sorted[Len(sorted)])
         THEN Append(InsertSorted(SubSeq(sorted, 1, Len(sorted) - 1), g), sorted[Len(sorted)])
         ELSE Append(sorted, g)

RECURSIVE SortGenotypes(_)
SortGenotypes(gs) ==
    IF gs = <<>> THEN <<>>
    ELSE InsertSorted(SortGenotypes(SubSeq(gs, 1, Len(gs) - 1)), gs[Len(gs)])

\* a faulty variant of the definition that follows it: forward and reverse are exchanged
StrandSupport_Exchanged(rds, i, reverse) ==
    Cardinality({r \in 1..Len(rds) :
        AffinityAt(rds[r], i).consistent /\ AffinityAt(rds[r], i).is_reverse # reverse})

\* lines 1139-1154: strand_support_for_allele[i], .first (forward) or .second (reverse)
StrandSupport(rds, i, reverse) ==
    Cardinality({r \in 1..Len(rds) :
        AffinityAt(rds[r], i).consistent /\ AffinityAt(rds[r], i).is_reverse = reverse})

\* lines 1136-1152: is_forward / is_reverse of one read
ReadIsForward(read) ==
    \E k \in 1..Len(read.affinities) : read.affinities[k].consistent /\ ~read.affinities[k].is_reverse
ReadIsReverse(read) ==
    \E k \in 1..Len(read.affinities) : read.affinities[k].consistent /\ read.affinities[k].is_reverse

\* a faulty variant of the definition that follows it: a read of both strands is counted on both
OverallReverse_NoElse(rds) ==
    Cardinality({r \in 1..Len(rds) : ReadIsReverse(rds[r])})

\* lines 1156-1163: overall_forward_reads
OverallForward(rds) ==
    Cardinality({r \in 1..Len(rds) : ReadIsForward(rds[r])})

\* lines 1164-1166: overall_reverse_reads
OverallReverse(rds) ==
    Cardinality({r \in 1..Len(rds) : ~ReadIsForward(rds[r]) /\ ReadIsReverse(rds[r])})

\* the Locus of Genotyper::genotype_site (lines 1086-1267)
GenotypedLocus(n, rds) ==
    LET vectors == GenotypeVectors(0, 0, n)
        scored  == [k \in 1..Len(vectors) |-> ScoredGenotype(vectors[k], rds)]
    IN  [allele_size     |-> n,
         support         |-> [i \in 1..n |-> [forward |-> StrandSupport(rds, i - 1, FALSE),
                                              reverse |-> StrandSupport(rds, i - 1, TRUE)]],
         genotype        |-> SortGenotypes(scored),
         overall_support |-> [forward |-> OverallForward(rds), reverse |-> OverallReverse(rds)]]

genotype_site ==
    /\ gpc = "start"
    /\ locus' = GenotypedLocus(num_alleles, reads)
    /\ gpc' = "done"
    /\ UNCHANGED <<num_alleles, reads, use_mapq, het_prior_logprob, pathVars, runVars, moreVars>>

\* an Affinity as genotype_site reads it: is_reverse is read only when consistent
Affinities == {Affinity(FALSE, FALSE), Affinity(TRUE, FALSE), Affinity(TRUE, TRUE)}

\* the base qualities and mapping quality the reads of one run carry
QualityChoices == {<<>>, <<30>>}
MappingQuality == 60

\* the het priors of the model: ln(0.001) and ln(0.01)
HetPriorChoices == {-6908, -4605}

\* a number for an Affinity, and for the affinities of a read
AffinityCode(a) == IF ~a.consistent THEN 0 ELSE IF a.is_reverse THEN 2 ELSE 1

RECURSIVE ReadCode(_, _)
ReadCode(affinities, k) ==
    IF k = 0 THEN 0 ELSE AffinityCode(affinities[k]) + 3 * ReadCode(affinities, k - 1)

\* The reads of a site.  genotype_site meets them in the order of a map keyed by
\* the address of the Alignment (lines 1136, 900), an order that says nothing
\* about what the reads hold: one order is kept for each multiset of reads.
ReadsUpTo(n, quality, most) ==
    UNION {{rds \in [1..r -> [quality : {quality}, mapping_quality : {MappingQuality},
                              affinities : [1..n -> Affinities]]] :
               \A k \in 1..(r - 1) :
                   ReadCode(rds[k].affinities, n) <= ReadCode(rds[k + 1].affinities, n)}
           : r \in 0..most}

ReadsOf(n, quality) == ReadsUpTo(n, quality, MaxReads)

(***************************************************************************)
(* Genotyper::run: one OpenMP task per site (lines 133-265), then the      *)
(* flush of the per-thread buffers (lines 267-272).                        *)
(*                                                                         *)
(* What a site's task computes is abstracted to what decides its control   *)
(* flow: the number of alleles get_paths_through_site found, whether its   *)
(* end nodes are in the reference index, and its reference interval.       *)
(***************************************************************************)
SiteIds == 1..NumSites
Threads == 1..ThreadCount

NoPaths  == [alleles |-> 0, start_on_ref |-> TRUE, end_on_ref |-> TRUE,
             interval_start |-> 1, interval_past_end |-> 2]
OnRef    == [alleles |-> 2, start_on_ref |-> TRUE, end_on_ref |-> TRUE,
             interval_start |-> 1, interval_past_end |-> 2]
OffRef   == [alleles |-> 2, start_on_ref |-> TRUE, end_on_ref |-> FALSE,
             interval_start |-> 1, interval_past_end |-> 0]
Backward == [alleles |-> 2, start_on_ref |-> TRUE, end_on_ref |-> TRUE,
             interval_start |-> 3, interval_past_end |-> 0]

\* the reference index exists only for VCF output (lines 124-130): without it
\* the sites differ only in having alleles or not
SiteKinds(mode) == IF mode = "vcf" THEN {NoPaths, OnRef, OffRef, Backward} ELSE {NoPaths, OnRef}

OutputModes == {"json", "vcf", "protobuf"}

CriticalNames == {"cout", "stream_out", "total_affinities"}

\* a faulty variant of the definition that follows it: the critical section is entered without waiting
CriticalFree_NoWait(name) == TRUE

\* #pragma omp critical (name): the section can be entered when no task is inside
CriticalFree(name) == critical[name] = 0

\* the thread runs no task
ThreadFree(t) == \A s \in SiteIds : thread_of[s] = t => task[s] = "done"

\* Genotyper::locus_to_variant, lines 1383-1416: what the call comes to
\*   "throw"  a runtime_error leaves the task (lines 1384-1389)
\*   "none"   no variant is returned (lines 1395-1400)
\*   "assert" the assertion of line 1416 fails
\*   "record" a variant is returned
LocusToVariantOutcome(kind) ==
    IF kind.alleles = 0 THEN "throw"
    ELSE IF ~kind.start_on_ref \/ ~kind.end_on_ref THEN "none"
    ELSE IF ~(kind.interval_start <= kind.interval_past_end) THEN "assert"
    ELSE "record"

Record(s, wellformed) == [site |-> s, wellformed |-> wellformed]

\* lines 143-233: a thread takes the task of a site, finds its alleles (none: the
\* site is skipped, lines 205-211), scores the reads and genotypes the site
StartTask(s, t) ==
    /\ rpc = "parallel" /\ ~aborted
    /\ task[s] = "todo"
    /\ ThreadFree(t)
    /\ thread_of' = [thread_of EXCEPT ![s] = t]
    /\ task' = [task EXCEPT ![s] = IF site_kind[s].alleles = 0 THEN "done" ELSE "genotyped"]
    /\ UNCHANGED <<output_mode, site_kind, critical, writing, cout, buffer, aborted, rpc,
                   pathVars, genoVars, moreVars>>

\* lines 235-238: the JSON line goes out inside critical (cout)
BeginJson(s) ==
    /\ ~aborted
    /\ output_mode = "json"
    /\ task[s] = "genotyped"
    /\ CriticalFree("cout")
    /\ critical' = [critical EXCEPT !["cout"] = s]
    /\ writing' = writing \cup {s}
    /\ task' = [task EXCEPT ![s] = "write_cout"]
    /\ UNCHANGED <<output_mode, site_kind, thread_of, cout, buffer, aborted, rpc,
                   pathVars, genoVars, moreVars>>

\* lines 239-242: locus_to_variant.  An exception that leaves an OpenMP task and a
\* failed assert both end the process; a build with NDEBUG has no assert and
\* returns a record made from the ill-formed interval.
LocusToVariant(s) ==
    /\ ~aborted
    /\ output_mode = "vcf"
    /\ task[s] = "genotyped"
    /\ LET outcome == LocusToVariantOutcome(site_kind[s])
       IN  \/ /\ outcome \in {"throw", "assert"}
              /\ aborted' = TRUE
              /\ UNCHANGED task
           \/ /\ outcome = "assert"
              /\ task' = [task EXCEPT ![s] = "bad_variant"]
              /\ UNCHANGED aborted
           \/ /\ outcome = "none"
              /\ task' = [task EXCEPT ![s] = "done"]
              /\ UNCHANGED aborted
           \/ /\ outcome = "record"
              /\ task' = [task EXCEPT ![s] = "variant"]
              /\ UNCHANGED aborted
    /\ UNCHANGED <<output_mode, site_kind, thread_of, critical, writing, cout, buffer, rpc,
                   pathVars, genoVars, moreVars>>

\* lines 243-255: the variant goes out inside critical (cout)
BeginVariant(s) ==
    /\ ~aborted
    /\ task[s] \in {"variant", "bad_variant"}
    /\ CriticalFree("cout")
    /\ critical' = [critical EXCEPT !["cout"] = s]
    /\ writing' = writing \cup {s}
    /\ task' = [task EXCEPT ![s] = IF task[s] = "variant" THEN "write_cout" ELSE "write_bad"]
    /\ UNCHANGED <<output_mode, site_kind, thread_of, cout, buffer, aborted, rpc,
                   pathVars, genoVars, moreVars>>

\* the end of the statement inside critical (cout): the record is in the stream
EndWrite(s) ==
    /\ ~aborted
    /\ task[s] \in {"write_cout", "write_bad"}
    /\ cout' = Append(cout, Record(s, task[s] = "write_cout"))
    /\ critical' = [critical EXCEPT !["cout"] = IF @ = s THEN 0 ELSE @]
    /\ writing' = writing \ {s}
    /\ task' = [task EXCEPT ![s] = "done"]
    /\ UNCHANGED <<output_mode, site_kind, thread_of, buffer, aborted, rpc, pathVars, genoVars, moreVars>>

\* lines 256-259: the Locus goes to the buffer of the task's thread; write_buffered
\* writes the buffer out once it holds buffer_limit loci
PushLocus(s) ==
    /\ ~aborted
    /\ output_mode = "protobuf"
    /\ task[s] = "genotyped"
    /\ buffer' = [buffer EXCEPT ![thread_of[s]] = Append(@, Record(s, TRUE))]
    /\ task' = [task EXCEPT ![s] = IF Len(buffer'[thread_of[s]]) >= BufferLimit
                                   THEN "flush" ELSE "done"]
    /\ UNCHANGED <<output_mode, site_kind, thread_of, critical, writing, cout, aborted, rpc,
                   pathVars, genoVars, moreVars>>

\* stream::write_buffered: the write of the buffer, serialized by a mutex
BeginFlush(s) ==
    /\ ~aborted
    /\ task[s] = "flush"
    /\ CriticalFree("stream_out")
    /\ critical' = [critical EXCEPT !["stream_out"] = s]
    /\ writing' = writing \cup {s}
    /\ task' = [task EXCEPT ![s] = "write_stream"]
    /\ UNCHANGED <<output_mode, site_kind, thread_of, cout, buffer, aborted, rpc,
                   pathVars, genoVars, moreVars>>

EndFlush(s) ==
    /\ ~aborted
    /\ task[s] = "write_stream"
    /\ cout' = cout \o buffer[thread_of[s]]
    /\ buffer' = [buffer EXCEPT ![thread_of[s]] = <<>>]
    /\ critical' = [critical EXCEPT !["stream_out"] = IF @ = s THEN 0 ELSE @]
    /\ writing' = writing \ {s}
    /\ task' = [task EXCEPT ![s] = "done"]
    /\ UNCHANGED <<output_mode, site_kind, thread_of, aborted, rpc, pathVars, genoVars, moreVars>>

\* a faulty variant of the definition that follows it: only the first thread's buffer is written
BuffersFrom_FirstOnly(i) == IF i > 1 THEN <<>> ELSE buffer[i]

\* the buffers one after the other, from thread i on
RECURSIVE BuffersFrom(_)
BuffersFrom(i) == IF i > ThreadCount THEN <<>> ELSE buffer[i] \o BuffersFrom(i + 1)

\* lines 265-272: the parallel region ends when every task has ended; without
\* JSON or VCF output the buffers are then written out by the one thread left
FinalFlush ==
    /\ rpc = "parallel" /\ ~aborted
    /\ \A s \in SiteIds : task[s] = "done"
    /\ IF output_mode = "protobuf"
       THEN /\ cout' = cout \o BuffersFrom(1)
            /\ buffer' = [t \in Threads |-> <<>>]
       ELSE UNCHANGED <<cout, buffer>>
    /\ rpc' = "done"
    /\ UNCHANGED <<output_mode, site_kind, task, thread_of, critical, writing, aborted,
                   pathVars, genoVars, moreVars>>

(***************************************************************************)
(* Genotyper::run, the count of affinities (lines 113, 140-230): each task *)
(* adds the size of every Affinity vector of its site to the shared        *)
(* total_affinities, one += per vector inside critical (total_affinities). *)
(* A += reads the counter and then writes the sum.  What the task does     *)
(* after the loop (lines 233-260) does not touch the counter and is left   *)
(* to SpecRun.                                                             *)
(***************************************************************************)
\* the affinities maps a site of the kind can have: no entry without alleles
\* (the site is skipped, lines 205-211), else one vector per read, with one
\* Affinity per allele
AffinitySizes(kind) ==
    IF kind.alleles = 0 THEN {<<>>}
    ELSE UNION {[1..r -> {kind.alleles}] : r \in 0..MaxCounted}

\* lines 140-225: a thread takes the task of a site up to the loop of line 227
StartCount(s, t) ==
    /\ rpc = "parallel"
    /\ task[s] = "todo"
    /\ ThreadFree(t)
    /\ IF affinity_sizes[s] = <<>>
       THEN task' = [task EXCEPT ![s] = "done"] /\ UNCHANGED thread_of
       ELSE task' = [task EXCEPT ![s] = "counting"] /\ thread_of' = [thread_of EXCEPT ![s] = t]
    /\ UNCHANGED <<output_mode, site_kind, critical, writing, cout, buffer, aborted, rpc,
                   countVars, pathVars, genoVars,
                   vcfVars>>

\* lines 228-229: inside critical (total_affinities), the += reads the counter
LoadTotal(s) ==
    /\ task[s] = "counting"
    /\ CriticalFree("total_affinities")
    /\ critical' = [critical EXCEPT !["total_affinities"] = s]
    /\ loaded' = [loaded EXCEPT ![s] = total_affinities]
    /\ task' = [task EXCEPT ![s] = "adding"]
    /\ UNCHANGED <<output_mode, site_kind, thread_of, writing, cout, buffer, aborted, rpc,
                   total_affinities, affinity_sizes, added, pathVars, genoVars,
                   vcfVars>>

\* line 229: the += writes the sum and the critical section ends; after the last
\* vector the task is through with the counter and its thread is free again
StoreTotal(s) ==
    /\ task[s] = "adding"
    /\ total_affinities' = loaded[s] + affinity_sizes[s][added[s] + 1]
    /\ added' = [added EXCEPT ![s] = @ + 1]
    /\ critical' = [critical EXCEPT !["total_affinities"] = IF @ = s THEN 0 ELSE @]
    /\ IF added'[s] = Len(affinity_sizes[s])
       THEN task' = [task EXCEPT ![s] = "done"] /\ thread_of' = [thread_of EXCEPT ![s] = 0]
       ELSE task' = [task EXCEPT ![s] = "counting"] /\ UNCHANGED thread_of
    /\ UNCHANGED <<output_mode, site_kind, writing, cout, buffer, aborted, rpc,
                   affinity_sizes, loaded, pathVars, genoVars,
                   vcfVars>>

\* line 265: the parallel region ends when every task has ended
EndCount ==
    /\ rpc = "parallel"
    /\ \A s \in SiteIds : task[s] = "done"
    /\ rpc' = "done"
    /\ UNCHANGED <<output_mode, site_kind, task, thread_of, critical, writing, cout, buffer,
                   aborted, countVars, pathVars, genoVars,
                   vcfVars>>

(***************************************************************************)
(* Variant records: ReferenceIndex, write_vcf_header, start_vcf and        *)
(* locus_to_variant (lines 1275-1640).  Positions count from 0 as in the   *)
(* code; numbers that the code turns into text with to_string stay         *)
(* numbers.                                                                *)
(***************************************************************************)
Min(a, b) == IF a <= b THEN a ELSE b

\* std::string::substr(pos, len), for pos <= size()
Substr(str, pos, len) == SubSeq(str, pos + 1, Min(pos + len, Len(str)))

\* a faulty variant of the definition that follows it: nothing is dropped
DropInvalidLeading_None(sequence) == sequence

\* lines 1591-1606: the leading characters of the reference that are no base are dropped
RECURSIVE DropInvalidLeading(_)
DropInvalidLeading(sequence) ==
    IF sequence # <<>> /\ Head(sequence) \notin {"A", "T", "C", "G", "N"}
    THEN DropInvalidLeading(Tail(sequence))
    ELSE sequence

\* lines 1568-1629: the loop over the mappings of the reference path
RECURSIVE TraceReference(_, _, _, _)
TraceReference(mappings, referenceBase, byId, refSeq) ==
    IF mappings = <<>> THEN [sequence |-> refSeq, byId |-> byId]
    ELSE LET mapping  == Head(mappings)
             seen     == IF mapping.node_id \in DOMAIN byId THEN byId
                         ELSE byId @@ (mapping.node_id :>
                                  [first |-> referenceBase, second |-> mapping.is_reverse])
             whole    == NodeSequence(mapping.node_id)
             sequence == IF referenceBase = 0 THEN DropInvalidLeading(whole) ELSE whole
         IN  TraceReference(Tail(mappings), referenceBase + Len(sequence), seen,
                            refSeq \o (IF mapping.is_reverse THEN reverse_complement(sequence)
                                       ELSE sequence))

\* ReferenceIndex::ReferenceIndex
ReferenceIndex(refPath) == TraceReference(refPath, 0, <<>>, <<>>)

\* line 129 of run, reference_index = new ReferenceIndex(graph, ref_path_name):
\* the reference path is the embedded path of name 1
BuildReferenceIndex ==
    /\ vpc = "trace"
    /\ index' = ReferenceIndex(paths[1])
    /\ vpc' = "traced"
    /\ UNCHANGED <<superbubble_paths, contig_name, length_override, vcf_header, variant,
                   pathVars, genoVars, runVars, countVars>>

\* Genotyper::write_vcf_header: the keys its lines declare
write_vcf_header(sample_name, contig, contig_size) ==
    [alt    |-> {"NON_REF"},
     info   |-> {"XREF", "XSEE", "DP"},
     format |-> {"DP", "GT", "AD", "SB", "XAAD"},
     contig |-> IF contig # "" THEN <<[id |-> contig, length |-> contig_size]>> ELSE <<>>,
     sample |-> sample_name]

\* lines 1275-1285 and 1306-1312: what is no A, C, G or T becomes N
FixBases(allele) ==
    [i \in 1..Len(allele) |-> IF allele[i] \in {"A", "C", "G", "T"} THEN allele[i] ELSE "N"]

\* create_ref_allele: ref is the corrected string, alleles[0] the string as given
create_ref_allele(v, allele) ==
    [v EXCEPT !.ref = FixBases(allele), !.alleles = Append(@, allele)]

\* add_alt_allele: the record and the allele number
add_alt_allele(v, allele) ==
    LET fixed == FixBases(allele)
        found == {i \in 1..Len(v.alleles) : v.alleles[i] = fixed}
    IN  IF found # {}
        THEN [variant |-> v, number |-> (CHOOSE i \in found : \A j \in found : i <= j) - 1]
        ELSE [variant |-> [v EXCEPT !.alt = Append(@, fixed), !.alleles = Append(@, fixed)],
              number  |-> Len(v.alleles)]

\* allele_to_string (lines 284-301): the first and the last mapping are dropped
RECURSIVE allele_to_string_from(_, _)
allele_to_string_from(allele, i) ==
    IF i >= Len(allele) THEN <<>>
    ELSE (IF allele[i].backward THEN reverse_complement(NodeSequence(allele[i].node))
          ELSE NodeSequence(allele[i].node))
         \o allele_to_string_from(allele, i + 1)

allele_to_string(allele) == allele_to_string_from(allele, 2)

Max(a, b) == IF a >= b THEN a ELSE b

\* a Support that was never set
DefaultSupport == [forward |-> 0, reverse |-> 0]

\* a double: a number, or infinity
Finite(x) == [finite |-> TRUE, value |-> x]
Infinite  == [finite |-> FALSE, value |-> 0]

\* logprob_to_phred: -10 * x / ln(10), in units of 1/1000
logprob_to_phred(x) == ((0 - x) * 10000) \div 2303

\* lines 1465-1485: the alleles of the locus get their allele numbers, from
\* allele i on (counted from 1); st holds variant, allele_to_alt, support_by_alt
\* and max_alt_number
RECURSIVE NumberAlleles(_, _, _, _)
NumberAlleles(loc, allele_strings, i, st) ==
    IF i > Len(allele_strings) THEN st
    ELSE LET put        == add_alt_allele(st.variant, allele_strings[i])
             alt_number == put.number
             resized    == IF Len(st.support_by_alt) <= alt_number
                           THEN st.support_by_alt \o
                                [k \in 1..(alt_number + 1 - Len(st.support_by_alt)) |-> DefaultSupport]
                           ELSE st.support_by_alt
         IN  NumberAlleles(loc, allele_strings, i + 1,
                 [variant        |-> put.variant,
                  allele_to_alt  |-> Append(st.allele_to_alt, alt_number),
                  max_alt_number |-> Max(st.max_alt_number, alt_number),
                  support_by_alt |-> IF i <= Len(loc.support)
                                     THEN [resized EXCEPT ![alt_number + 1] = loc.support[i]]
                                     ELSE st.support_by_alt])

\* lines 1517-1538: the log likelihoods go to their places, from genotype i on
\* (counted from 1); vector::at throws when the place is outside the vector
RECURSIVE StoreLikelihoods(_, _, _, _)
StoreLikelihoods(loc, allele_to_alt, i, filled) ==
    IF ~filled.in_range \/ i > Len(loc.genotype) THEN filled
    ELSE LET first_alt  == allele_to_alt[loc.genotype[i].allele[1] + 1]
             second_alt == allele_to_alt[loc.genotype[i].allele[2] + 1]
             low_alt    == Min(first_alt, second_alt)
             high_alt   == Max(first_alt, second_alt)
             place      == (high_alt * (high_alt + 1)) \div 2 + low_alt
         IN  IF place >= Len(filled.log_likelihoods)
             THEN [filled EXCEPT !.in_range = FALSE]
             ELSE StoreLikelihoods(loc, allele_to_alt, i + 1,
                      [filled EXCEPT !.log_likelihoods[place + 1] =
                                         Finite(loc.genotype[i].log_likelihood)])

\* a faulty variant of the definition that follows it: the base at the start of the interval
PrefixOf_AtStart(idx, intervalStart) == Substr(idx.sequence, intervalStart, 1)

\* line 1440: the character before the site
PrefixOf(idx, intervalStart) == Substr(idx.sequence, intervalStart - 1, 1)

\* a faulty variant of the definition that follows it: a record without content is returned
NoVariant_Placeholder ==
    [outcome |-> "returned", records |-> <<[ref |-> <<>>, alt |-> <<>>, alleles |-> <<>>]>>]

\* lines 1395-1400: the vector is returned as it was made, empty
NoVariant == [outcome |-> "returned", records |-> <<>>]

\* lines 1418-1551: the record of a locus with alleles whose site is on the
\* reference, for the reference interval given
VariantOf(idx, loc, allele_paths, intervalStart, refLength) ==
    LET refString      == Substr(idx.sequence, intervalStart, refLength)
        allele_strings == [i \in 1..loc.allele_size |-> allele_to_string(allele_paths[i])]
        empty_alleles  == refString = <<>> \/ \E i \in 1..Len(allele_strings) : allele_strings[i] = <<>>
        prefix         == PrefixOf(idx, intervalStart)
        fixed_strings  == IF empty_alleles
                          THEN [i \in 1..Len(allele_strings) |-> prefix \o allele_strings[i]]
                          ELSE allele_strings
        fixed_ref      == IF empty_alleles THEN prefix \o refString ELSE refString
        fixed_start    == IF empty_alleles THEN intervalStart - 1 ELSE intervalStart
        empty_variant  == [ref |-> <<>>, alt |-> <<>>, alleles |-> <<>>, quality |-> 0]
        numbered       == NumberAlleles(loc, fixed_strings, 1,
                              [variant        |-> create_ref_allele(empty_variant, fixed_ref),
                               allele_to_alt  |-> <<>>,
                               max_alt_number |-> 0,
                               support_by_alt |-> <<>>])
        allele_to_alt  == numbered.allele_to_alt
        max_alt_number == numbered.max_alt_number
        best_genotype  == loc.genotype[1]
        depth          == loc.overall_support.forward + loc.overall_support.reverse
        filled         == StoreLikelihoods(loc, allele_to_alt, 1,
                              [in_range |-> TRUE,
                               log_likelihoods |->
                                   [k \in 1..((max_alt_number * (max_alt_number + 1)) \div 2
                                              + max_alt_number + 1) |-> Infinite]])
    IN  IF empty_alleles /\ intervalStart = 0 THEN [outcome |-> "throw", records |-> <<>>]
        ELSE IF ~filled.in_range THEN [outcome |-> "throw", records |-> <<>>]
        ELSE [outcome |-> "returned",
              records |-> <<[ref      |-> numbered.variant.ref,
                             alt      |-> numbered.variant.alt,
                             alleles  |-> numbered.variant.alleles,
                             quality  |-> 0,
                             format   |-> <<"GT", "DP", "AD", "PL">>,
                             GT       |-> [first  |-> allele_to_alt[best_genotype.allele[1] + 1],
                                           phased |-> FALSE,
                                           second |-> allele_to_alt[best_genotype.allele[2] + 1]],
                             DP       |-> depth,
                             info_DP  |-> depth,
                             AD       |-> [k \in 1..Len(numbered.support_by_alt) |->
                                              numbered.support_by_alt[k].forward
                                              + numbered.support_by_alt[k].reverse],
                             PL       |-> [k \in 1..Len(filled.log_likelihoods) |->
                                              IF filled.log_likelihoods[k].finite
                                              THEN Finite(logprob_to_phred(
                                                       filled.log_likelihoods[k].value
                                                       - best_genotype.log_likelihood))
                                              ELSE Infinite],
                             position |-> fixed_start + 1]>>]

\* Genotyper::locus_to_variant.  ndebug: the build has no assert; the length of
\* line 1419 is then the difference of two size_t, which wraps around when the
\* interval runs backwards, and substr takes what is left of the reference
\* (it throws when the start is past the end of the reference).
locus_to_variant(st, idx, loc, allele_paths, ndebug) ==
    IF loc.allele_size = 0 \/ Len(allele_paths[1]) = 0
    THEN [outcome |-> "throw", records |-> <<>>]
    ELSE IF st.start.node \notin DOMAIN idx.byId \/ st.end.node \notin DOMAIN idx.byId
    THEN NoVariant
    ELSE LET referenceIntervalStart   == idx.byId[st.start.node].first
                                         + Len(NodeSequence(st.start.node))
             referenceIntervalPastEnd == idx.byId[st.end.node].first
         IN  IF referenceIntervalStart <= referenceIntervalPastEnd
             THEN VariantOf(idx, loc, allele_paths, referenceIntervalStart,
                            referenceIntervalPastEnd - referenceIntervalStart)
             ELSE IF ~ndebug THEN [outcome |-> "assert", records |-> <<>>]
             ELSE IF referenceIntervalStart > Len(idx.sequence)
             THEN [outcome |-> "throw", records |-> <<>>]
             ELSE VariantOf(idx, loc, allele_paths, referenceIntervalStart, Len(idx.sequence))

\* lines 124-130 and 1351-1370: the header is written before the parallel
\* region; the task of the site then comes to genotype_site (line 233)
start_vcf ==
    /\ vpc = "init"
    /\ vcf_header' = write_vcf_header("SAMPLE", contig_name,
                          IF length_override > 0 THEN length_override ELSE Len(index.sequence))
    /\ vpc' = "header"
    /\ gpc' = "start"
    /\ UNCHANGED <<num_alleles, reads, use_mapq, het_prior_logprob, locus, superbubble_paths,
                   index, contig_name, length_override, variant, pathVars, runVars, countVars>>

\* lines 239-242: the call of locus_to_variant on the genotyped Locus
LocusToVariantCall ==
    /\ vpc = "header"
    /\ gpc = "done"
    /\ \E ndebug \in BOOLEAN :
          variant' = locus_to_variant(site, index, locus, superbubble_paths, ndebug)
    /\ vpc' = "done"
    /\ UNCHANGED <<superbubble_paths, index, contig_name, length_override, vcf_header,
                   pathVars, genoVars, runVars, countVars>>

\* the alleles a site of variant records can have: the bubble between node 1
\* and node 5 has here, beside its branches 2, 3 and 4, a branch over node 6 and
\* an edge from node 1 to node 5
VcfBranches == {<<>>, <<2>>, <<3>>, <<4>>, <<6>>}

AlleleOver(branch) ==
    <<NodeTraversal(1, FALSE)>> \o [k \in 1..Len(branch) |-> NodeTraversal(branch[k], FALSE)]
        \o <<NodeTraversal(5, FALSE)>>

\* the alleles get_paths_through_site can return: in the order of their
\* sequences, which are distinct
AlleleLists ==
    UNION {{l \in [1..n -> {AlleleOver(b) : b \in VcfBranches}] :
               \A k \in 1..(n - 1) :
                   StringLess(traversals_to_string(l[k]), traversals_to_string(l[k + 1]))}
           : n \in 1..MaxAlleles}

\* the reference paths of the model: through the site over each branch, short
\* of the site's end, and through the site from its end to its start
ReferenceWalks == {<<1, 2, 5>>, <<1, 4, 5>>, <<1, 6, 5>>, <<1, 5>>, <<1>>, <<5, 1>>}

\* contig_name and length_override of a run
ContigChoices == {<<"", 0>>, <<"chr", 0>>, <<"chr", 7>>}

(***************************************************************************)
(* Genotyper::get_affinities_fast (lines 755-857): every embedded path is a *)
(* read (reads_by_name has every path name).                                *)
(***************************************************************************)
\* NodeTraversal::reverse
ReverseOf(t) == NodeTraversal(t.node, ~t.backward)

\* Genotyper::get_traversal_of_site
RECURSIVE get_traversal_of_site(_, _)
get_traversal_of_site(st, path) ==
    IF path = <<>> THEN <<>>
    ELSE (IF Head(path).node_id \in st.contents
          THEN <<NodeTraversal(Head(path).node_id, Head(path).is_reverse)>>
          ELSE <<>>)
         \o get_traversal_of_site(st, Tail(path))

\* line 801: the read went through the site backward
TraversedBackward(st, read_traversal) ==
    \/ read_traversal[1] = ReverseOf(st.end)
    \/ read_traversal[Len(read_traversal)] = ReverseOf(st.start)

\* lines 801-811: the traversal of the read in the orientation of the site
CanonicalTraversal(st, read_traversal) ==
    IF TraversedBackward(st, read_traversal)
    THEN [i \in 1..Len(read_traversal) |->
             ReverseOf(read_traversal[Len(read_traversal) + 1 - i])]
    ELSE read_traversal

\* lines 829-831: std::mismatch over seq from the begin of path_seq.  When seq
\* is the longer and path_seq is its prefix, the comparison comes to the NUL
\* that a string keeps after its last character, which no sequence holds.
PrefixByMismatch(seq, path_seq) ==
    /\ \A i \in 1..Min(Len(seq), Len(path_seq)) : seq[i] = path_seq[i]
    /\ Len(seq) <= Len(path_seq)

\* lines 835-837: std::mismatch over seq backward from the rbegin of path_seq.
\* When seq is the longer and path_seq is its suffix, the comparison reads
\* the memory before the characters of path_seq: undefined behaviour, the
\* comparison finds the rest of seq there (past_rend) or not.
SuffixByMismatch(seq, path_seq, past_rend) ==
    /\ \A i \in 1..Min(Len(seq), Len(path_seq)) :
           seq[Len(seq) + 1 - i] = path_seq[Len(path_seq) + 1 - i]
    /\ (Len(seq) <= Len(path_seq) \/ past_rend)

\* lines 821-841: affinity.consistent for one allele; it keeps the false of a
\* new Affinity when the read touches neither end
ConsistentWith(st, read_traversal, path_seq, past_rend) ==
    LET seq == traversals_to_string(read_traversal)
    IN  IF read_traversal[1] = st.start /\ read_traversal[Len(read_traversal)] = st.end
        THEN seq = path_seq
        ELSE IF read_traversal[1] = st.start
        THEN PrefixByMismatch(seq, path_seq)
        ELSE IF read_traversal[Len(read_traversal)] = st.end
        THEN SuffixByMismatch(seq, path_seq, past_rend)
        ELSE FALSE

\* a faulty variant of the definition that follows it: nothing is pushed for
\* a read that touches neither end
AffinitiesOfRead_SkipsNeither(st, path, allele_strings, past_rend) ==
    LET read_traversal == CanonicalTraversal(st, get_traversal_of_site(st, path))
    IN  IF read_traversal[1] # st.start /\ read_traversal[Len(read_traversal)] # st.end
        THEN <<>>
        ELSE [k \in 1..Len(allele_strings) |->
                 Affinity(ConsistentWith(st, read_traversal, allele_strings[k], past_rend),
                          TraversedBackward(st, get_traversal_of_site(st, path)))]

\* lines 793-845, for one read: one Affinity per allele, pushed in the order
\* of the alleles
AffinitiesOfRead(st, path, allele_strings, past_rend) ==
    LET read_traversal == CanonicalTraversal(st, get_traversal_of_site(st, path))
    IN  [k \in 1..Len(allele_strings) |->
            Affinity(ConsistentWith(st, read_traversal, allele_strings[k], past_rend),
                     TraversedBackward(st, get_traversal_of_site(st, path)))]

\* lines 778-789: the reads that visit a node of the site
relevant_read_names(st) ==
    {name \in PathNames : \E i \in 1..Len(paths[name]) : paths[name][i].node_id \in st.contents}

\* Genotyper::get_affinities_fast.  The map is keyed by the address of the
\* Alignment; its entries are kept in the order of the names, with the name.
get_affinities_fast(st, alleles, quality, past_rend) ==
    LET names          == Ascending(relevant_read_names(st))
        allele_strings == [k \in 1..Len(alleles) |-> traversals_to_string(alleles[k])]
    IN  [r \in 1..Len(names) |->
            [name            |-> names[r],
             quality         |-> quality,
             mapping_quality |-> MappingQuality,
             affinities      |-> AffinitiesOfRead(st, paths[names[r]], allele_strings,
                                                  past_rend[names[r]])]]

\* line 225: the affinities of the reads to the alleles found, then
\* genotype_site (line 233)
GetAffinitiesFast ==
    /\ pc = "done"
    /\ to_return # <<>>
    /\ gpc = "idle"
    /\ \E quality \in QualityChoices, past_rend \in [PathNames -> BOOLEAN] :
          reads' = get_affinities_fast(site, to_return, quality, past_rend)
    /\ num_alleles' = Len(to_return)
    /\ gpc' = "start"
    /\ UNCHANGED <<use_mapq, het_prior_logprob, locus, pathVars, runVars, moreVars>>

(***************************************************************************)
(* The task of one site in Genotyper::run (lines 140-262): the alleles of   *)
(* the site, a second try with start and end exchanged when there are none, *)
(* then the Locus and its output.                                           *)
(***************************************************************************)
\* a faulty variant of the definition that follows it: only start is assigned
SwapEnds_StartOnly(st) == [st EXCEPT !.start = st.end]

\* swap(site.start, site.end)
SwapEnds(st) == [st EXCEPT !.start = st.end, !.end = st.start]

\* get_paths_through_site(graph, site) on the site as it stands, the mappings
\* on its start node met in the order ord
PathsThroughSite(ord) ==
    CollectResults(ComputeResults(ord), SortedKeys(DOMAIN ComputeResults(ord)))

\* lines 213-233: the affinities of the reads to the alleles found, and the
\* start of genotype_site
ToGenotypeSite(found) ==
    /\ num_alleles' = Len(found)
    /\ reads' \in ReadsUpTo(Len(found), <<30>>, MaxTaskReads)
    /\ gpc' = "start"

\* lines 148-157: the first call, and the exchange of start and end when it
\* returns no path
FirstTry ==
    /\ pc = "start"
    /\ \E ord \in MappingOrders :
          /\ order' = ord
          /\ results' = ComputeResults(ord)
          /\ to_return' = PathsThroughSite(ord)
    /\ IF to_return' = <<>>
       THEN /\ site' = SwapEnds(site)
            /\ pc' = "retry"
            /\ UNCHANGED <<num_alleles, reads, gpc>>
       ELSE /\ site' = site
            /\ pc' = "found"
            /\ ToGenotypeSite(to_return')
    /\ UNCHANGED <<paths, min_recurrence, given, use_mapq, het_prior_logprob, locus,
                   runVars, moreVars>>

\* lines 157-166: the second call, on the exchanged site; its paths are used,
\* or start and end are put back
Retry ==
    /\ pc = "retry"
    /\ \E ord \in MappingOrders :
          /\ order' = ord
          /\ results' = ComputeResults(ord)
          /\ to_return' = PathsThroughSite(ord)
    /\ IF to_return' # <<>>
       THEN /\ site' = site
            /\ pc' = "corrected"
            /\ ToGenotypeSite(to_return')
       ELSE /\ site' = SwapEnds(site)
            /\ pc' = "skipped"
            /\ UNCHANGED <<num_alleles, reads, gpc>>
    /\ UNCHANGED <<paths, min_recurrence, given, use_mapq, het_prior_logprob, locus,
                   runVars, moreVars>>

\* lines 235-238: the Locus is written (JSON output)
EmitLocus ==
    /\ gpc = "done"
    /\ cout = <<>>
    /\ cout' = <<locus>>
    /\ UNCHANGED <<output_mode, site_kind, task, thread_of, critical, writing, buffer,
                   aborted, rpc, pathVars, genoVars, moreVars>>

(***************************************************************************)
(* Claims about get_paths_through_site, under SpecPaths.                   *)
(***************************************************************************)
\* what one walk from mapping idx of path name finds on its own
WalkAlone(name, idx) == WalkLoop(name, idx, TraversalDirection(name, idx), 0, <<>>, <<>>, <<>>)

\* the walks of a path that start on the start node (the path visits the end node too)
WalkStarts(name) ==
    IF MappingsOn(site.end.node, name) = {} THEN {} ELSE MappingsOn(site.start.node, name)

\* the sequences spelled by a set of traversal lists
Spelled(lists) == {traversals_to_string(l) : l \in lists}

\* C1: every traversal list returned begins with site.start and ends with
\* site.end, node and orientation, whether the walk went left or right.
C1_AllelesRunStartToEnd ==
    pc = "done" =>
        \A i \in 1..Len(to_return) :
            /\ Len(to_return[i]) >= 1
            /\ to_return[i][1] = site.start
            /\ to_return[i][Len(to_return[i])] = site.end

\* a run that returned alleles found by a walk to the left and by a walk to the right
C1_Witness ==
    /\ pc = "done"
    /\ to_return # <<>>
    /\ \E n, m \in PathNames :
          /\ \E i \in WalkStarts(n) : TraversalDirection(n, i) /\ WalkAlone(n, i) # <<>>
          /\ \E j \in WalkStarts(m) : ~TraversalDirection(m, j) /\ WalkAlone(m, j) # <<>>

\* C2: the traversal lists returned for a site spell pairwise distinct sequences.
C2_DistinctSequences ==
    pc = "done" =>
        \A i, j \in 1..Len(to_return) :
            traversals_to_string(to_return[i]) = traversals_to_string(to_return[j]) => i = j

\* two alleles were returned, and one of them was walked with two different node lists
C2_Witness ==
    /\ pc = "done"
    /\ Len(to_return) >= 2
    /\ \E n, m \in PathNames : \E i \in WalkStarts(n) : \E j \in WalkStarts(m) :
          /\ WalkAlone(n, i) # <<>> /\ WalkAlone(m, j) # <<>>
          /\ DOMAIN WalkAlone(n, i) = DOMAIN WalkAlone(m, j)
          /\ WalkAlone(n, i) # WalkAlone(m, j)

\* the embedded paths with a walk from the start node that reaches the end node
\* spelling seq
PathsRealizing(seq) ==
    {n \in PathNames : \E i \in WalkStarts(n) : seq \in DOMAIN WalkAlone(n, i)}

\* C3 (as claimed): a sequence is emitted exactly when at least min_recurrence
\* distinct embedded paths realize it; several occurrences of one path on the
\* start node count once.
C3_EmittedIffEnoughDistinctPaths ==
    pc = "done" =>
        \A seq \in DOMAIN results :
            (seq \in Spelled(Range(to_return)))
                <=> (Cardinality(PathsRealizing(seq)) >= min_recurrence)

\* what the code returns when the mappings are met in the order of the path
CanonicalReturn ==
    LET res == ComputeResults(PathOrder)
    IN  CollectResults(res, SortedKeys(DOMAIN res))

\* C4 (as claimed): whatever the order in which the occurrences were visited, the
\* same set of traversal lists is returned.
C4_SameTraversalLists ==
    pc = "done" => Range(to_return) = Range(CanonicalReturn)

\* C4 (amended): whatever the order in which the occurrences were visited, the
\* traversal lists returned spell the same set of sequences, one list per sequence.
C4_SameSequences ==
    pc = "done" =>
        /\ Spelled(Range(to_return)) = Spelled(Range(CanonicalReturn))
        /\ Len(to_return) = Len(CanonicalReturn)

\* a run in another order than the path's that returned another node list for a sequence
C4_Witness ==
    /\ pc = "done"
    /\ order # PathOrder
    /\ to_return # <<>>
    /\ Range(to_return) # Range(CanonicalReturn)

(***************************************************************************)
(* Claims about genotype_site, under SpecGeno.                             *)
(***************************************************************************)
\* the genotypes in the order they were scored, before the sort
ScoredGenotypes ==
    LET vectors == GenotypeVectors(0, 0, num_alleles)
    IN  [k \in 1..Len(vectors) |-> ScoredGenotype(vectors[k], reads)]

\* how often x occurs in the sequence s
Occurrences(s, x) == Cardinality({k \in 1..Len(s) : s[k] = x})

\* C5: one Genotype per unordered allele pair (i, j), 0 <= j <= i < n, so
\* n(n+1)/2 of them, each with two allele indices; in each, log_posterior =
\* log_likelihood + log_prior, the prior being the het prior when i # j and its
\* complement when i = j.
C5_OneGenotypePerPair ==
    gpc = "done" =>
        /\ Len(locus.genotype) = (num_alleles * (num_alleles + 1)) \div 2
        /\ \A i \in 0..(num_alleles - 1) : \A j \in 0..i :
              Cardinality({k \in 1..Len(locus.genotype) :
                  locus.genotype[k].allele \in {<<i, j>>, <<j, i>>}}) = 1
        /\ \A k \in 1..Len(locus.genotype) :
              LET g == locus.genotype[k]
              IN  /\ Len(g.allele) = 2
                  /\ g.log_posterior = g.log_likelihood + g.log_prior
                  /\ g.log_prior = IF g.allele[1] # g.allele[2]
                                   THEN het_prior_logprob
                                   ELSE logprob_invert(het_prior_logprob)

\* a locus of two alleles or more, with reads
C5_Witness ==
    /\ gpc = "done"
    /\ num_alleles >= 2
    /\ Len(reads) >= 1
    /\ \E k \in 1..Len(locus.genotype) : locus.genotype[k].allele[1] # locus.genotype[k].allele[2]

\* C6: the genotypes of the Locus are in an order in which log_posterior never
\* increases, and they are the scored genotypes, none added and none lost.
C6_SortedByPosterior ==
    gpc = "done" =>
        /\ \A k \in 1..(Len(locus.genotype) - 1) :
              locus.genotype[k].log_posterior >= locus.genotype[k + 1].log_posterior
        /\ Len(locus.genotype) = Len(ScoredGenotypes)
        /\ \A g \in Range(ScoredGenotypes) \cup Range(locus.genotype) :
              Occurrences(locus.genotype, g) = Occurrences(ScoredGenotypes, g)

\* the genotypes were not scored in the order of their posteriors: the sort moved some
C6_Witness ==
    /\ gpc = "done"
    /\ \E k \in 1..(Len(ScoredGenotypes) - 1) :
          ScoredGenotypes[k].log_posterior < ScoredGenotypes[k + 1].log_posterior
    /\ locus.genotype # ScoredGenotypes

\* C7: one Support per allele, in allele order; its forward count is the number
\* of reads consistent with the allele and not reverse, its reverse count the
\* number of reads consistent with it and reverse.
C7_SupportPerAllele ==
    gpc = "done" =>
        /\ Len(locus.support) = num_alleles
        /\ \A a \in 1..num_alleles :
              /\ locus.support[a].forward =
                    Cardinality({r \in 1..Len(reads) :
                        reads[r].affinities[a].consistent /\ ~reads[r].affinities[a].is_reverse})
              /\ locus.support[a].reverse =
                    Cardinality({r \in 1..Len(reads) :
                        reads[r].affinities[a].consistent /\ reads[r].affinities[a].is_reverse})

\* an allele with a forward read, and an allele with more reverse than forward reads
C7_Witness ==
    /\ gpc = "done"
    /\ \E a \in 1..num_alleles : locus.support[a].forward >= 1
    /\ \E a \in 1..num_alleles : locus.support[a].reverse > locus.support[a].forward

\* the reads consistent with an allele or more
SupportingReads == {r \in 1..Len(reads) : \E a \in 1..num_alleles : reads[r].affinities[a].consistent}

\* the reads consistent with alleles on both strands
TwoStrandReads ==
    {r \in 1..Len(reads) : \E a, b \in 1..num_alleles :
        /\ reads[r].affinities[a].consistent /\ ~reads[r].affinities[a].is_reverse
        /\ reads[r].affinities[b].consistent /\ reads[r].affinities[b].is_reverse}

\* C8: the overall Support counts each read once: forward + reverse is the number
\* of reads consistent with an allele or more, a read of both strands counts as
\* forward, and the sum is at most the number of reads and at most the sum of
\* the per-allele supports.
C8_OverallCountsReadsOnce ==
    gpc = "done" =>
        LET overall == locus.overall_support
        IN  /\ overall.forward + overall.reverse = Cardinality(SupportingReads)
            /\ overall.forward =
                  Cardinality({r \in SupportingReads :
                      \E a \in 1..num_alleles :
                          reads[r].affinities[a].consistent /\ ~reads[r].affinities[a].is_reverse})
            /\ overall.forward + overall.reverse <= Len(reads)
            /\ overall.forward + overall.reverse <=
                  SumSeq([a \in 1..num_alleles |->
                      locus.support[a].forward + locus.support[a].reverse])

\* a read consistent with one allele forward and with another reverse, beside a reverse read
C8_Witness ==
    /\ gpc = "done"
    /\ TwoStrandReads # {}
    /\ locus.overall_support.reverse >= 1

(***************************************************************************)
(* Claims about run, under SpecRun.                                        *)
(***************************************************************************)
\* the sites with a record in the output stream
Written == {cout[k].site : k \in 1..Len(cout)}

\* a site run can render: it has alleles and, for a variant record, both end
\* nodes on the reference and a well-formed reference interval
Renderable(s) ==
    /\ site_kind[s].alleles > 0
    /\ output_mode = "vcf" => LocusToVariantOutcome(site_kind[s]) = "record"

\* C9 (as claimed): a site that cannot be rendered is skipped, and every other
\* site is genotyped and written, whatever happened to the first.
C9_OtherSitesStillWritten ==
    (rpc = "done" \/ aborted) =>
        /\ \A s \in SiteIds : Renderable(s) => s \in Written
        /\ \A s \in SiteIds : ~Renderable(s) => s \notin Written

\* C10: in every output mode, at most one site task is writing to the output
\* stream at any time.
C10_WritesSerialized == Cardinality(writing) <= 1

\* a task is writing to the stream while another has its record ready and waits
C10_Witness ==
    /\ writing # {}
    /\ \E s \in SiteIds : s \notin writing /\ task[s] \in {"genotyped", "variant", "flush"}
                          /\ (task[s] = "genotyped" => output_mode = "json")

(***************************************************************************)
(* Claims about the buffered output without JSON or VCF, under SpecBuf.    *)
(***************************************************************************)
\* how many records of site s the output holds, and how many the buffers hold
InOutput(s) == Cardinality({k \in 1..Len(cout) : cout[k].site = s})

InBuffers(s) ==
    Cardinality({tk \in Threads \X (1..NumSites) :
                    tk[2] <= Len(buffer[tk[1]]) /\ buffer[tk[1]][tk[2]].site = s})

\* the task of site s has pushed its Locus (line 258)
Pushed(s) == site_kind[s].alleles > 0 /\ task[s] \in {"flush", "write_stream", "done"}

\* a Locus pushed is in the output or in one buffer, once; no other is anywhere
OneCopyEach ==
    \A s \in SiteIds :
        InOutput(s) + InBuffers(s) = (IF Pushed(s) THEN 1 ELSE 0)

\* at the end of run every Locus is in the output once and the buffers are empty
AllWrittenOnce ==
    /\ rpc = "done"
    /\ \A s \in SiteIds : InOutput(s) = (IF site_kind[s].alleles > 0 THEN 1 ELSE 0)
    /\ \A t \in Threads : buffer[t] = <<>>

\* a step inside the parallel region changes the buffer of thread t only as a
\* step of a task that runs on t
OwnBufferOnly ==
    \A t \in Threads :
        (buffer'[t] # buffer[t] /\ rpc' = "parallel") =>
            \E s \in SiteIds : thread_of[s] = t /\ task'[s] # task[s]

\* a thread runs one task at a time
OneTaskPerThread ==
    \A s1, s2 \in SiteIds :
        (s1 # s2 /\ thread_of[s1] = thread_of[s2] /\ thread_of[s1] # 0)
            => (task[s1] = "done" \/ task[s2] = "done")

\* C29: without JSON or VCF output every Locus a task produces is written to
\* the output exactly once by the end of run, by the write at a full buffer or
\* by the final flush; none is lost or written twice, and inside the parallel
\* region a buffer is changed only by the task running on its thread.
C29_EveryLocusWrittenOnce ==
    /\ [](OneCopyEach /\ OneTaskPerThread)
    /\ [](rpc = "done" => AllWrittenOnce)
    /\ [][OwnBufferOnly]_vars
    /\ <>(rpc = "done")

\* one thread's buffer was written when it filled, and another thread's Locus
\* waits in its buffer for the final flush
C29_Witness ==
    /\ rpc = "parallel"
    /\ \A s \in SiteIds : task[s] = "done"
    /\ cout # <<>>
    /\ \E t \in Threads : buffer[t] # <<>>

(***************************************************************************)
(* Claims about the count of affinities, under SpecCount.                  *)
(***************************************************************************)
\* the sum of the sizes of all Affinity vectors of the sites from s on
RECURSIVE AffinitiesFrom(_)
AffinitiesFrom(s) ==
    IF s > NumSites THEN 0 ELSE SumSeq(affinity_sizes[s]) + AffinitiesFrom(s + 1)

\* C11: after the parallel region total_affinities is the sum, over the sites
\* with alleles, of the sizes of all their Affinity vectors, under every
\* interleaving of the tasks: no update is lost.
C11_NoLostUpdate ==
    rpc = "done" /\ affinity_sizes # <<>> => total_affinities = AffinitiesFrom(1)

\* a task is inside the critical section with the value it read, while another
\* task has a vector to add and waits
C11_Witness ==
    /\ affinity_sizes # <<>>
    /\ \E s, u \in SiteIds : s # u /\ task[s] = "adding" /\ task[u] = "counting"
                              /\ loaded[s] = total_affinities

(***************************************************************************)
(* Claims about variant records, under SpecVcf.                            *)
(***************************************************************************)
\* both end nodes of the site are in the reference index
SiteOnReference ==
    site.start.node \in DOMAIN index.byId /\ site.end.node \in DOMAIN index.byId

\* the reference interval of the site
IntervalStart   == index.byId[site.start.node].first + Len(NodeSequence(site.start.node))
IntervalPastEnd == index.byId[site.end.node].first

WellFormedInterval == SiteOnReference /\ IntervalStart <= IntervalPastEnd

\* locus_to_variant has returned one record
OneRecord == vpc = "done" /\ variant.outcome = "returned" /\ Len(variant.records) = 1

TheRecord == variant.records[1]

\* the reference between the anchors, and the alleles without their anchors
ReferenceAllele == Substr(index.sequence, IntervalStart, IntervalPastEnd - IntervalStart)
LocusAlleles    == [i \in 1..Len(superbubble_paths) |-> allele_to_string(superbubble_paths[i])]

\* C12: locus_to_variant returns no record when an end node of the site is not
\* in the reference index, and exactly one record when both are and the
\* reference interval is well-formed (the locus has alleles).
C12_NoRecordOffReference ==
    vpc = "done" =>
        /\ ~SiteOnReference => variant.outcome = "returned" /\ variant.records = <<>>
        /\ WellFormedInterval => variant.outcome = "returned" /\ Len(variant.records) = 1

\* a locus with alleles and reads whose site ends off the reference: nothing returned
C12_Witness ==
    /\ vpc = "done"
    /\ ~SiteOnReference
    /\ locus.allele_size >= 1 /\ Len(reads) >= 1
    /\ variant.records = <<>>

\* C13: if the reference allele or an allele of the locus is empty, the base
\* before the interval is put before the reference allele and every allele, and
\* the position is one less than otherwise; if none is empty nothing is put
\* before them and the position is the interval start + 1.
C13_LeftAnchor ==
    OneRecord /\ WellFormedInterval =>
        LET before == <<index.sequence[IntervalStart]>>
        IN  IF ReferenceAllele = <<>> \/ \E i \in 1..Len(LocusAlleles) : LocusAlleles[i] = <<>>
            THEN /\ TheRecord.ref = FixBases(before \o ReferenceAllele)
                 /\ TheRecord.alleles[1] = before \o ReferenceAllele
                 /\ \A i \in 1..Len(LocusAlleles) :
                        FixBases(before \o LocusAlleles[i]) \in Range(TheRecord.alleles)
                 /\ Len(TheRecord.alleles) <= 1 + Len(LocusAlleles)
                 /\ TheRecord.position = (IntervalStart + 1) - 1
            ELSE /\ TheRecord.ref = FixBases(ReferenceAllele)
                 /\ TheRecord.alleles[1] = ReferenceAllele
                 /\ \A i \in 1..Len(LocusAlleles) :
                        FixBases(LocusAlleles[i]) \in Range(TheRecord.alleles)
                 /\ Len(TheRecord.alleles) <= 1 + Len(LocusAlleles)
                 /\ TheRecord.position = IntervalStart + 1

\* a deletion: an allele of the locus is empty where the reference is not, and
\* the record starts one base earlier
C13_Witness ==
    /\ OneRecord /\ WellFormedInterval
    /\ ReferenceAllele # <<>>
    /\ \E i \in 1..Len(LocusAlleles) : LocusAlleles[i] = <<>>
    /\ Len(TheRecord.alt) >= 1
    /\ TheRecord.position = IntervalStart

\* C14 (as claimed): a locus whose only allele spells the reference interval,
\* with every read consistent with it, gives a record with GT 0/0 and no ALT.
C14_ReferenceOnlyIsHomRef ==
    (/\ OneRecord /\ WellFormedInterval
     /\ Len(LocusAlleles) = 1
     /\ LocusAlleles[1] = ReferenceAllele
     /\ \A r \in 1..Len(reads) : reads[r].affinities[1].consistent)
    => /\ TheRecord.GT.first = 0 /\ TheRecord.GT.second = 0
       /\ TheRecord.alt = <<>>

\* the place of the genotype of allele numbers a and b in the PL of a record
PlaceOf(a, b) == (Max(a, b) * (Max(a, b) + 1)) \div 2 + Min(a, b)

\* the allele number the record gives to allele i of the locus (counted from 0)
AltOf(i) ==
    LET str == IF ReferenceAllele = <<>> \/ \E k \in 1..Len(LocusAlleles) : LocusAlleles[k] = <<>>
               THEN <<index.sequence[IntervalStart]>> \o LocusAlleles[i + 1]
               ELSE LocusAlleles[i + 1]
    IN  (CHOOSE k \in 1..Len(TheRecord.alleles) :
            /\ TheRecord.alleles[k] = FixBases(str)
            /\ \A j \in 1..(k - 1) : TheRecord.alleles[j] # FixBases(str)) - 1

\* C15 (as claimed): PL has one value per diploid genotype over the alleles of
\* the record; the genotype of allele numbers j <= i is at i(i+1)/2 + j, inside
\* the vector, and every value is the log likelihood of its genotype minus that
\* of the first genotype of the Locus, Phred-scaled.
C15_PLPerGenotype ==
    OneRecord /\ WellFormedInterval =>
        LET alleleCount == Len(TheRecord.alleles)
        IN  /\ Len(TheRecord.PL) = (alleleCount * (alleleCount + 1)) \div 2
            /\ \A g \in 1..Len(locus.genotype) :
                   PlaceOf(AltOf(locus.genotype[g].allele[1]), AltOf(locus.genotype[g].allele[2]))
                       < Len(TheRecord.PL)
            /\ \A k \in 1..Len(TheRecord.PL) :
                   \E g \in 1..Len(locus.genotype) :
                       /\ PlaceOf(AltOf(locus.genotype[g].allele[1]),
                                  AltOf(locus.genotype[g].allele[2])) = k - 1
                       /\ TheRecord.PL[k] =
                              Finite(logprob_to_phred(locus.genotype[g].log_likelihood
                                                      - locus.genotype[1].log_likelihood))

\* C16 (as claimed): every record carries GT, DP, AD, SB, XAAD and PL.
C16_SampleFields ==
    OneRecord => {"GT", "DP", "AD", "SB", "XAAD", "PL"} \subseteq Range(TheRecord.format)

\* C17 (as claimed): the header declares ALT NON_REF, INFO XREF, XSEE and DP,
\* FORMAT DP, GT, AD, SB, XAAD and PL and the contig with its length, and every
\* FORMAT key of a record is declared in it.
C17_HeaderDeclares ==
    /\ vpc \in {"header", "done"} =>
           /\ "NON_REF" \in vcf_header.alt
           /\ {"XREF", "XSEE", "DP"} \subseteq vcf_header.info
           /\ {"DP", "GT", "AD", "SB", "XAAD", "PL"} \subseteq vcf_header.format
           /\ Len(vcf_header.contig) = 1
           /\ vcf_header.contig[1].length =
                  (IF length_override > 0 THEN length_override ELSE Len(index.sequence))
    /\ OneRecord => Range(TheRecord.format) \subseteq vcf_header.format

(***************************************************************************)
(* Claims about the single SNP bubble, under SpecSnp: two alleles, over     *)
(* node 2 (allele 0, on the reference) and node 4 (allele 1); seven forward *)
(* reads consistent with allele 0 only, three with allele 1 only, base      *)
(* quality 30, het prior ln(0.01).                                          *)
(***************************************************************************)
\* the PL value of the record for the genotype of allele numbers a and b
PLOf(a, b) == TheRecord.PL[PlaceOf(a, b) + 1]

\* C18 (amended): the first genotype of the Locus is 0/1, the record calls 0/1,
\* PL[0/1] = 0, and the other two are ordered PL[1/1] > PL[0/0] > PL[0/1].
C18_SnpHetWins ==
    OneRecord =>
        /\ Range(locus.genotype[1].allele) = {0, 1}
        /\ {TheRecord.GT.first, TheRecord.GT.second} = {0, 1}
        /\ PLOf(0, 1) = Finite(0)
        /\ PLOf(0, 0) # Infinite /\ PLOf(1, 1) # Infinite
        /\ PLOf(1, 1).value > PLOf(0, 0).value
        /\ PLOf(0, 0).value > PLOf(0, 1).value

C18_Witness ==
    /\ OneRecord /\ use_mapq
    /\ Len(reads) = 10
    /\ reads[1].affinities[2].consistent /\ reads[10].affinities[2].consistent

\* C18 (as claimed): PL[0/0] > PL[0/1] > PL[1/1]
C18_PLOrderAsClaimed ==
    OneRecord =>
        /\ PLOf(0, 0) # Infinite /\ PLOf(0, 1) # Infinite /\ PLOf(1, 1) # Infinite
        /\ PLOf(0, 0).value > PLOf(0, 1).value
        /\ PLOf(0, 1).value > PLOf(1, 1).value

(***************************************************************************)
(* Claims about the PL of the genotype called, under SpecPair.             *)
(***************************************************************************)
\* C30 (as claimed): in every record the genotype of GT has the PL value 0,
\* and no PL value of the record is negative.
C30_CalledHasLeastPL ==
    OneRecord =>
        /\ PLOf(TheRecord.GT.first, TheRecord.GT.second) = Finite(0)
        /\ \A k \in 1..Len(TheRecord.PL) :
               TheRecord.PL[k].finite /\ TheRecord.PL[k].value >= 0

\* no PL value of a genotype of the Locus is negative
C30_NoScoredNegative ==
    OneRecord =>
        \A k \in 1..Len(TheRecord.PL) :
            TheRecord.PL[k].finite => TheRecord.PL[k].value >= 0

\* the genotype of GT has the PL value 0
C30_CalledIsZero ==
    OneRecord => PLOf(TheRecord.GT.first, TheRecord.GT.second) = Finite(0)

(***************************************************************************)
(* Claims about the task of a site, under SpecRetry.                        *)
(***************************************************************************)
\* C19: run exchanges start and end exactly when the first call returns no
\* path and tries once more; paths found by the second call are used with the
\* site left exchanged, so that alleles and Locus are those of the site given
\* the right way round; when the second call finds none either, start and end
\* are as given again and the site has no Locus and no output; site.contents
\* never changes.
C19_SwapAndRetryOnce ==
    /\ site.contents = given.contents
    /\ pc = "start" => site = given
    /\ pc = "found" => site = given /\ to_return # <<>>
    /\ pc = "retry" =>
          /\ site.start = given.end /\ site.end = given.start
          /\ to_return = <<>> /\ locus = <<>> /\ cout = <<>>
    /\ pc = "corrected" =>
          /\ site.start = given.end /\ site.end = given.start
          /\ to_return # <<>>
          /\ to_return = PathsThroughSite(order)
          /\ num_alleles = Len(to_return)
          /\ gpc = "done" => locus = GenotypedLocus(Len(to_return), reads)
          /\ cout # <<>> => cout = <<locus>>
    /\ pc = "skipped" =>
          /\ site = given
          /\ to_return = <<>> /\ gpc = "idle" /\ locus = <<>> /\ cout = <<>>

\* an inside-out site whose Locus was written after the second call
C19_Witness ==
    /\ pc = "corrected"
    /\ site.start = given.end /\ site.start # given.start
    /\ Len(to_return) >= 2
    /\ cout = <<locus>>

(***************************************************************************)
(* Claims about the walk and the site's contents, under SpecInside.        *)
(***************************************************************************)
\* the node of every traversal of the allele is in site.contents
StaysInContents(allele) ==
    \A i \in 1..Len(allele) : allele[i].node \in site.contents

\* the start node and the end node are met only at the two ends of the allele
EndsOnlyAtEnds(allele) ==
    /\ \A i \in 2..Len(allele) : allele[i].node # site.start.node
    /\ \A i \in 1..(Len(allele) - 1) : allele[i].node # site.end.node

\* C28: every traversal of every allele returned by get_paths_through_site is
\* of a node in site.contents, and the start node and the end node of the site
\* occur only as the first and the last element of the allele.
C28_AllelesInsideSite ==
    pc = "done" =>
        \A k \in 1..Len(to_return) :
            StaysInContents(to_return[k]) /\ EndsOnlyAtEnds(to_return[k])

\* the same for the sites given the right way round only: the walk of lines
\* 478-524 stays in the contents of such a site
C28_InsideWhenRightWayRound ==
    (pc = "done" /\ site \in ContentSites) =>
        \A k \in 1..Len(to_return) :
            StaysInContents(to_return[k]) /\ EndsOnlyAtEnds(to_return[k])

\* an allele with inner nodes returned for a site given the right way round
C28_RightWayRoundReached ==
    /\ pc = "done" /\ site \in ContentSites
    /\ \E k \in 1..Len(to_return) : Len(to_return[k]) > 2

(***************************************************************************)
(* Claims about the step bound of a walk, under SpecWalk.                  *)
(***************************************************************************)
\* the number of mappings the loop of lines 478-524 visits from mapping idx
RECURSIVE WalkVisits(_, _, _, _)
WalkVisits(name, idx, traversal_direction, traversal_count) ==
    IF ~WalkGoesOn(idx, traversal_count) THEN 0
    ELSE IF paths[name][idx].node_id = site.end.node
            /\ paths[name][idx].is_reverse = ExpectedEndOrientation(traversal_direction)
    THEN 1
    ELSE 1 + WalkVisits(name,
                        IF traversal_direction THEN traverse_left(name, idx)
                                               ELSE traverse_right(name, idx),
                        traversal_direction, traversal_count + 1)

VisitsFrom(name, idx) == WalkVisits(name, idx, TraversalDirection(name, idx), 0)

\* C20: every walk from a mapping on the start node visits at most
\* max_path_search_steps mappings, on paths that cycle and on paths that do not
\* come to the end node too, and every allele returned has at most
\* max_path_search_steps traversals.
C20_WalksAreBounded ==
    pc = "done" =>
        /\ \A n \in PathNames : \A i \in WalkStarts(n) :
               VisitsFrom(n, i) <= max_path_search_steps
        /\ \A k \in 1..Len(to_return) : Len(to_return[k]) <= max_path_search_steps
        /\ \A seq \in DOMAIN results : Len(results[seq].first) <= max_path_search_steps

\* a walk cut by the bound before the end node, and an allele of
\* max_path_search_steps traversals
C20_Witness ==
    /\ pc = "done"
    /\ \E n \in PathNames : \E i \in WalkStarts(n) :
          /\ VisitsFrom(n, i) = max_path_search_steps
          /\ WalkAlone(n, i) = <<>>
          /\ (IF TraversalDirection(n, i) THEN i > max_path_search_steps
                                          ELSE i + max_path_search_steps <= Len(paths[n]))
    /\ \E k \in 1..Len(to_return) : Len(to_return[k]) = max_path_search_steps

(***************************************************************************)
(* Claims about the terms of the likelihood, under SpecGeno.                *)
(***************************************************************************)
\* the number of alleles of the genotype, counted with multiplicity, that the
\* read is consistent with
MatchedAlleles(genotype, read) ==
    (IF read.affinities[genotype[1] + 1].consistent THEN 1 ELSE 0)
        + (IF read.affinities[genotype[2] + 1].consistent THEN 1 ELSE 0)

\* the term of a read as claimed: log(k/2), or the log probability that the
\* read is wrong, which without mapping quality and base qualities is that of
\* the default base quality
TermAsClaimed(genotype, read) ==
    IF MatchedAlleles(genotype, read) >= 1
    THEN LnMilli(MatchedAlleles(genotype, read)) - LnMilli(2)
    ELSE IF ~use_mapq /\ read.quality = <<>>
    THEN phred_to_logprob(default_sequence_quality)
    ELSE LogprobWrong(read)

\* the reads consistent with an allele of the site
ReadsWithAnAllele ==
    SelectSeq(reads, LAMBDA read : \E k \in 1..num_alleles : read.affinities[k].consistent)

\* C24: the log likelihood of every genotype is the sum of one term per read,
\* log(k/2) or the wrong term, and of the strand terms; the reads consistent
\* with no allele of the site give the wrong term to every genotype and change
\* no strand term.
C24_OneTermPerRead ==
    gpc = "done" =>
        \A g \in 1..Len(locus.genotype) :
            LET genotype == locus.genotype[g].allele
            IN  /\ locus.genotype[g].log_likelihood =
                       SumSeq([r \in 1..Len(reads) |-> TermAsClaimed(genotype, reads[r])])
                       + StrandsAsSpecified(genotype, ReadsWithAnAllele)
                /\ \A r \in 1..Len(reads) :
                       (\A k \in 1..num_alleles : ~reads[r].affinities[k].consistent)
                           => MatchedAlleles(genotype, reads[r]) = 0

\* a read consistent with no allele, without qualities and mapping quality,
\* beside a read consistent with one allele of two
C24_Witness ==
    /\ gpc = "done" /\ ~use_mapq
    /\ num_alleles = 2 /\ Len(reads) = 2
    /\ reads[1].quality = <<>>
    /\ \E r, q \in 1..2 :
          /\ \A k \in 1..2 : ~reads[r].affinities[k].consistent
          /\ reads[q].affinities[1].consistent /\ ~reads[q].affinities[2].consistent

\* C25 (as claimed): the strand term of allele a of a genotype, homozygous or
\* not, is the multinomial of the numbers of reads consistent with a forward
\* and reverse, each read counted once; one term per distinct allele of the
\* genotype that has a consistent read.
C25_StrandCountsPerRead ==
    gpc = "done" =>
        \A g \in 1..Len(locus.genotype) :
            LET genotype == locus.genotype[g].allele
                counted  == Ascending({a \in Range(genotype) :
                                StrandSupport(reads, a, FALSE) + StrandSupport(reads, a, TRUE) > 0})
            IN  locus.genotype[g].log_likelihood =
                    SumSeq([r \in 1..Len(reads) |-> TermAsClaimed(genotype, reads[r])])
                    + SumSeq([k \in 1..Len(counted) |->
                          multinomial_sampling_prob_ln(StrandSupport(reads, counted[k], FALSE),
                                                       StrandSupport(reads, counted[k], TRUE))])

(***************************************************************************)
(* Claims about the reference index, under SpecRef.                         *)
(***************************************************************************)
\* the reference path, the first visit of a node, and the orientation of a visit
RefPath == paths[1]
FirstVisit(id) ==
    CHOOSE i \in 1..Len(RefPath) :
        RefPath[i].node_id = id /\ \A j \in 1..(i - 1) : RefPath[j].node_id # id
OrientedNode(i) ==
    IF RefPath[i].is_reverse THEN reverse_complement(NodeSequence(RefPath[i].node_id))
    ELSE NodeSequence(RefPath[i].node_id)

\* what visit i puts on the reference: nothing for the node of no valid base
\* while nothing has been put yet, the oriented sequence of the node otherwise
Emitted(i) ==
    IF \A j \in 1..i : RefPath[j].node_id = 6 THEN <<>> ELSE OrientedNode(i)

RECURSIVE EmittedBefore(_)
EmittedBefore(i) == IF i <= 1 THEN <<>> ELSE EmittedBefore(i - 1) \o Emitted(i - 1)

\* C26 (amended): byId has the nodes the reference path visits; it holds, for
\* each, the length of the reference emitted before its first visit and the
\* orientation of that visit, whatever later visits are; the reference holds at
\* that offset the oriented sequence of the node, less the invalid leading
\* bases dropped from it: a node trimmed to nothing has the offset of the
\* node after it.
C26_FirstVisitOffsets ==
    vpc = "traced" =>
        /\ DOMAIN index.byId = {RefPath[i].node_id : i \in 1..Len(RefPath)}
        /\ index.sequence = EmittedBefore(Len(RefPath) + 1)
        /\ \A id \in DOMAIN index.byId :
               /\ index.byId[id].first = Len(EmittedBefore(FirstVisit(id)))
               /\ index.byId[id].second = RefPath[FirstVisit(id)].is_reverse
               /\ Substr(index.sequence, index.byId[id].first, Len(Emitted(FirstVisit(id))))
                      = Emitted(FirstVisit(id))

\* a reference that leads with the invalid node and visits a node twice
C26_Witness ==
    /\ vpc = "traced"
    /\ RefPath[1].node_id = 6
    /\ \E i, j \in 2..Len(RefPath) : i < j /\ RefPath[i].node_id = RefPath[j].node_id
    /\ index.byId[6].first = 0 /\ index.byId[RefPath[2].node_id].first = 0

\* C26 (as claimed): the reference holds at the offset of every node, the
\* trimmed first node too, the whole oriented sequence of the node.
C26_WholeNodeAtOffset ==
    vpc = "traced" =>
        \A id \in DOMAIN index.byId :
            /\ index.byId[id].first = Len(EmittedBefore(FirstVisit(id)))
            /\ Substr(index.sequence, index.byId[id].first, Len(NodeSequence(id)))
                   = OrientedNode(FirstVisit(id))

(***************************************************************************)
(* Claims about get_affinities_fast, under SpecAff.                         *)
(***************************************************************************)
\* get_affinities_fast has returned
Scored == gpc \in {"start", "done"}

\* the traversal of the site by the read of entry r, in the orientation of the
\* site, what it spells and how it is anchored
ReadTraversal(r) == CanonicalTraversal(site, get_traversal_of_site(site, paths[reads[r].name]))
ReadSeq(r)       == traversals_to_string(ReadTraversal(r))
StartsAtStart(r) == ReadTraversal(r)[1] = site.start
EndsAtEnd(r)     == ReadTraversal(r)[Len(ReadTraversal(r))] = site.end

AlleleSeq(k) == traversals_to_string(to_return[k])

IsPrefix(a, b) == Len(a) <= Len(b) /\ SubSeq(b, 1, Len(a)) = a
IsSuffix(a, b) == Len(a) <= Len(b) /\ SubSeq(b, Len(b) - Len(a) + 1, Len(b)) = a

\* the nodes of the site that the read of a name touches
Touched(name) == {paths[name][i].node_id : i \in 1..Len(paths[name])} \cap site.contents

\* C21 (as claimed): a read anchored at both ends is consistent with an allele
\* iff it spells the allele; one anchored at the start only iff it spells a
\* prefix of the allele; one anchored at the end only iff it spells a suffix of
\* the allele (never, when it is longer than the allele); the weight is 1 when
\* consistent and 0 otherwise.
C21_ConsistencyRules ==
    Scored =>
        \A r \in 1..Len(reads) : \A k \in 1..Len(to_return) :
            LET a == reads[r].affinities[k]
            IN  /\ StartsAtStart(r) /\ EndsAtEnd(r) => (a.consistent <=> ReadSeq(r) = AlleleSeq(k))
                /\ StartsAtStart(r) /\ ~EndsAtEnd(r) =>
                       (a.consistent <=> IsPrefix(ReadSeq(r), AlleleSeq(k)))
                /\ ~StartsAtStart(r) /\ EndsAtEnd(r) =>
                       (a.consistent <=> IsSuffix(ReadSeq(r), AlleleSeq(k)))
                /\ a.affinity = (IF a.consistent THEN 1 ELSE 0)

\* C22 (as claimed): a read that touches only the start node or only the end
\* node of the site has no entry in the affinities, and so no part in Support
\* or likelihood.
C22_EndTouchersDropped ==
    Scored =>
        \A name \in PathNames :
            Touched(name) \in {{site.start.node}, {site.end.node}} =>
                \A r \in 1..Len(reads) : reads[r].name # name

\* C23 (as claimed): a read whose traversal of the site neither starts at
\* site.start nor ends at site.end has no entry in the affinities.
C23_UnanchoredSkipped ==
    Scored => \A r \in 1..Len(reads) : StartsAtStart(r) \/ EndsAtEnd(r)

\* C27: every read scored has one Affinity per allele, entry i for allele i,
\* so that every allele number of a genotype is an index of every read's
\* affinities.
C27_OneAffinityPerAllele ==
    Scored =>
        \A r \in 1..Len(reads) :
            /\ Len(reads[r].affinities) = Len(to_return)
            /\ num_alleles = Len(to_return)
            /\ \A k \in 1..Len(to_return) :
                   StartsAtStart(r) /\ EndsAtEnd(r) =>
                       (reads[r].affinities[k].consistent <=> ReadSeq(r) = AlleleSeq(k))
            /\ gpc = "done" =>
                   \A g \in 1..Len(locus.genotype) : \A i \in 1..Len(locus.genotype[g].allele) :
                       locus.genotype[g].allele[i] + 1 \in DOMAIN reads[r].affinities

\* two alleles and two reads, each read anchored at both ends and consistent
\* with its own allele only
C27_Witness ==
    /\ gpc = "done"
    /\ Len(to_return) = 2 /\ Len(reads) = 2
    /\ \E r, q \in 1..2 :
          /\ StartsAtStart(r) /\ EndsAtEnd(r)
          /\ ~reads[r].affinities[1].consistent /\ reads[r].affinities[2].consistent
          /\ reads[q].affinities[1].consistent /\ ~reads[q].affinities[2].consistent

(***************************************************************************)
(* Idle values of each part.                                               *)
(***************************************************************************)
PathsIdle ==
    /\ paths = <<>> /\ site = <<>> /\ min_recurrence = 0 /\ order = <<>>
    /\ results = <<>> /\ to_return = <<>> /\ pc = "idle" /\ given = <<>>

GenoIdle ==
    /\ num_alleles = 0 /\ reads = <<>> /\ use_mapq = FALSE /\ het_prior_logprob = 0
    /\ locus = <<>> /\ gpc = "idle"

RunIdle ==
    /\ output_mode = "none" /\ site_kind = <<>> /\ task = <<>> /\ thread_of = <<>>
    /\ critical = <<>> /\ writing = {} /\ cout = <<>> /\ buffer = <<>>
    /\ aborted = FALSE /\ rpc = "idle"

CountIdle ==
    /\ total_affinities = 0 /\ affinity_sizes = <<>> /\ added = <<>> /\ loaded = <<>>

VcfIdle ==
    /\ superbubble_paths = <<>> /\ index = <<>> /\ contig_name = "" /\ length_override = 0
    /\ vcf_header = <<>> /\ variant = <<>> /\ vpc = "idle"

MoreIdle == CountIdle /\ VcfIdle

InitPaths ==
    /\ paths \in EmbeddedPathSets
    /\ site \in Sites
    /\ min_recurrence \in MinRecurrenceChoices
    /\ order = <<>> /\ results = <<>> /\ to_return = <<>>
    /\ pc = "start" /\ given = <<>>
    /\ GenoIdle /\ RunIdle /\ MoreIdle

NextPaths == GetPathsThroughSite

SpecPaths == InitPaths /\ [][NextPaths]_vars

InitGeno ==
    /\ num_alleles \in 1..MaxAlleles
    /\ \E quality \in QualityChoices : reads \in ReadsOf(num_alleles, quality)
    /\ use_mapq \in BOOLEAN
    /\ het_prior_logprob \in HetPriorChoices
    /\ locus = <<>>
    /\ gpc = "start"
    /\ PathsIdle /\ RunIdle /\ MoreIdle

NextGeno == genotype_site

SpecGeno == InitGeno /\ [][NextGeno]_vars

InitRun ==
    /\ output_mode \in OutputModes
    /\ site_kind \in [SiteIds -> SiteKinds(output_mode)]
    /\ task = [s \in SiteIds |-> "todo"]
    /\ thread_of = [s \in SiteIds |-> 0]
    /\ critical = [n \in CriticalNames |-> 0]
    /\ writing = {}
    /\ cout = <<>>
    /\ buffer = [t \in Threads |-> <<>>]
    /\ aborted = FALSE
    /\ rpc = "parallel"
    /\ PathsIdle /\ GenoIdle /\ MoreIdle

NextRun ==
    \/ \E s \in SiteIds, t \in Threads : StartTask(s, t)
    \/ \E s \in SiteIds : BeginJson(s)
    \/ \E s \in SiteIds : LocusToVariant(s)
    \/ \E s \in SiteIds : BeginVariant(s)
    \/ \E s \in SiteIds : EndWrite(s)
    \/ \E s \in SiteIds : PushLocus(s)
    \/ \E s \in SiteIds : BeginFlush(s)
    \/ \E s \in SiteIds : EndFlush(s)
    \/ FinalFlush

SpecRun == InitRun /\ [][NextRun]_vars

\* run without JSON or VCF output
InitBuf ==
    /\ output_mode = "protobuf"
    /\ site_kind \in [SiteIds -> SiteKinds(output_mode)]
    /\ task = [s \in SiteIds |-> "todo"]
    /\ thread_of = [s \in SiteIds |-> 0]
    /\ critical = [n \in CriticalNames |-> 0]
    /\ writing = {}
    /\ cout = <<>>
    /\ buffer = [t \in Threads |-> <<>>]
    /\ aborted = FALSE
    /\ rpc = "parallel"
    /\ PathsIdle /\ GenoIdle /\ MoreIdle

NextBuf ==
    \/ \E s \in SiteIds, t \in Threads : StartTask(s, t)
    \/ \E s \in SiteIds : PushLocus(s)
    \/ \E s \in SiteIds : BeginFlush(s)
    \/ \E s \in SiteIds : EndFlush(s)
    \/ FinalFlush

\* the threads of the team keep running: a step that can be taken is taken
SpecBuf == InitBuf /\ [][NextBuf]_vars /\ WF_vars(NextBuf)

InitCount ==
    /\ output_mode \in OutputModes
    /\ site_kind \in [SiteIds -> {NoPaths, OnRef}]
    /\ affinity_sizes \in [SiteIds -> UNION {AffinitySizes(k) : k \in {NoPaths, OnRef}}]
    /\ \A s \in SiteIds : affinity_sizes[s] \in AffinitySizes(site_kind[s])
    /\ total_affinities = 0
    /\ added = [s \in SiteIds |-> 0]
    /\ loaded = [s \in SiteIds |-> 0]
    /\ task = [s \in SiteIds |-> "todo"]
    /\ thread_of = [s \in SiteIds |-> 0]
    /\ critical = [n \in CriticalNames |-> 0]
    /\ writing = {} /\ cout = <<>>
    /\ buffer = [t \in Threads |-> <<>>]
    /\ aborted = FALSE
    /\ rpc = "parallel"
    /\ PathsIdle /\ GenoIdle /\ VcfIdle

NextCount ==
    \/ \E s \in SiteIds, t \in Threads : StartCount(s, t)
    \/ \E s \in SiteIds : LoadTotal(s)
    \/ \E s \in SiteIds : StoreTotal(s)
    \/ EndCount

SpecCount == InitCount /\ [][NextCount]_vars

InitVcf ==
    /\ site = [start |-> NodeTraversal(1, FALSE), end |-> NodeTraversal(5, FALSE),
               contents |-> NodeIds \cup {6}]
    /\ paths = <<>> /\ min_recurrence = 0 /\ order = <<>> /\ results = <<>>
    /\ to_return = <<>> /\ pc = "idle" /\ given = <<>>
    /\ superbubble_paths \in AlleleLists
    /\ num_alleles = Len(superbubble_paths)
    /\ reads \in ReadsUpTo(num_alleles, <<30>>, MaxVcfReads)
    /\ use_mapq = FALSE
    /\ het_prior_logprob \in HetPriorChoices
    /\ locus = <<>>
    /\ gpc = "idle"
    /\ \E w \in ReferenceWalks : index = ReferenceIndex(ForwardPath(w))
    /\ \E c \in ContigChoices : contig_name = c[1] /\ length_override = c[2]
    /\ vcf_header = <<>> /\ variant = <<>>
    /\ vpc = "init"
    /\ RunIdle /\ CountIdle

NextVcf ==
    \/ start_vcf
    \/ genotype_site
    \/ LocusToVariantCall

SpecVcf == InitVcf /\ [][NextVcf]_vars

\* the reads of the SNP bubble, in every order the map of genotype_site can
\* have them: seven consistent with allele 0 only, three with allele 1 only
SnpRead(allele) ==
    [quality |-> <<30>>, mapping_quality |-> MappingQuality,
     affinities |-> [k \in 1..2 |-> Affinity(k = allele + 1, FALSE)]]

SnpReads ==
    {rds \in [1..10 -> {SnpRead(0), SnpRead(1)}] :
        Cardinality({r \in 1..10 : rds[r] = SnpRead(0)}) = 7}

InitSnp ==
    /\ site = [start |-> NodeTraversal(1, FALSE), end |-> NodeTraversal(5, FALSE),
               contents |-> NodeIds \cup {6}]
    /\ paths = <<>> /\ min_recurrence = 0 /\ order = <<>> /\ results = <<>>
    /\ to_return = <<>> /\ pc = "idle" /\ given = <<>>
    /\ superbubble_paths = <<AlleleOver(<<2>>), AlleleOver(<<4>>)>>
    /\ num_alleles = 2
    /\ reads \in SnpReads
    /\ use_mapq \in BOOLEAN
    /\ het_prior_logprob = -4605
    /\ locus = <<>>
    /\ gpc = "idle"
    /\ index = ReferenceIndex(ForwardPath(<<1, 2, 5>>))
    /\ \E c \in ContigChoices : contig_name = c[1] /\ length_override = c[2]
    /\ vcf_header = <<>> /\ variant = <<>>
    /\ vpc = "init"
    /\ RunIdle /\ CountIdle

SpecSnp == InitSnp /\ [][NextVcf]_vars

\* a read consistent with one allele of two, with or without base qualities
PairRead(allele, quality) ==
    [quality |-> quality, mapping_quality |-> MappingQuality,
     affinities |-> [k \in 1..2 |-> Affinity(k = allele + 1, FALSE)]]

\* two reads over the two alleles of the bubble
PairReads ==
    [1..2 -> {PairRead(a, q) : a \in 0..1, q \in QualityChoices}]

InitPair ==
    /\ site = [start |-> NodeTraversal(1, FALSE), end |-> NodeTraversal(5, FALSE),
               contents |-> NodeIds \cup {6}]
    /\ paths = <<>> /\ min_recurrence = 0 /\ order = <<>> /\ results = <<>>
    /\ to_return = <<>> /\ pc = "idle" /\ given = <<>>
    /\ superbubble_paths = <<AlleleOver(<<2>>), AlleleOver(<<4>>)>>
    /\ num_alleles = 2
    /\ reads \in PairReads
    /\ use_mapq \in BOOLEAN
    /\ het_prior_logprob \in HetPriorChoices
    /\ locus = <<>>
    /\ gpc = "idle"
    /\ index = ReferenceIndex(ForwardPath(<<1, 2, 5>>))
    /\ \E c \in ContigChoices : contig_name = c[1] /\ length_override = c[2]
    /\ vcf_header = <<>> /\ variant = <<>>
    /\ vpc = "init"
    /\ RunIdle /\ CountIdle

SpecPair == InitPair /\ [][NextVcf]_vars

\* the site of the graph as the site finder can give it: from either side, and
\* inside out (start and end exchanged)
GivenSites ==
    Sites \cup
    {[start |-> NodeTraversal(5, FALSE), end |-> NodeTraversal(1, FALSE), contents |-> NodeIds],
     [start |-> NodeTraversal(1, TRUE), end |-> NodeTraversal(5, TRUE), contents |-> NodeIds]}

\* sets of embedded paths of at most MaxTaskMappings mappings in all
TaskPathSets ==
    {ps \in EmbeddedPathSets :
        SumSeq([n \in 1..Cardinality(PathNames) |-> Len(ps[n])]) <= MaxTaskMappings}

InitRetry ==
    /\ paths \in TaskPathSets
    /\ given \in GivenSites
    /\ site = given
    /\ min_recurrence \in MinRecurrenceChoices
    /\ order = <<>> /\ results = <<>> /\ to_return = <<>>
    /\ pc = "start"
    /\ num_alleles = 0 /\ reads = <<>> /\ use_mapq = FALSE /\ het_prior_logprob = -4605
    /\ locus = <<>> /\ gpc = "idle"
    /\ RunIdle /\ MoreIdle

NextRetry ==
    \/ FirstTry
    \/ Retry
    \/ genotype_site
    \/ EmitLocus

SpecRetry == InitRetry /\ [][NextRetry]_vars

\* a site whose end is more than max_path_search_steps mappings from its start
\* on some paths: from node 2 round the cycle to node 4
LongSite ==
    [start |-> NodeTraversal(2, FALSE), end |-> NodeTraversal(4, FALSE), contents |-> NodeIds]

InitWalk ==
    /\ paths \in EmbeddedPathSets
    /\ site = LongSite
    /\ min_recurrence \in MinRecurrenceChoices
    /\ order = <<>> /\ results = <<>> /\ to_return = <<>>
    /\ pc = "start" /\ given = <<>>
    /\ GenoIdle /\ RunIdle /\ MoreIdle

SpecWalk == InitWalk /\ [][NextPaths]_vars

InitInside ==
    /\ paths \in TaskPathSets
    /\ site \in ContentSites \cup InsideOutSites
    /\ min_recurrence \in MinRecurrenceChoices
    /\ order = <<>> /\ results = <<>> /\ to_return = <<>>
    /\ pc = "start" /\ given = <<>>
    /\ GenoIdle /\ RunIdle /\ MoreIdle

SpecInside == InitInside /\ [][NextPaths]_vars

InitAff ==
    /\ paths \in TaskPathSets
    /\ site \in Sites
    /\ min_recurrence \in MinRecurrenceChoices
    /\ order = <<>> /\ results = <<>> /\ to_return = <<>>
    /\ pc = "start" /\ given = <<>>
    /\ num_alleles = 0 /\ reads = <<>> /\ use_mapq \in BOOLEAN /\ het_prior_logprob = -4605
    /\ locus = <<>> /\ gpc = "idle"
    /\ RunIdle /\ MoreIdle

NextAff ==
    \/ GetPathsThroughSite
    \/ GetAffinitiesFast
    \/ genotype_site

SpecAff == InitAff /\ [][NextAff]_vars

\* the reference paths: the walks of the graph on either strand, and those
\* walks with the node of no valid base (node 6) before or after them
ReferencePaths ==
    LET walks == UNION {WalksOfLen(n) : n \in 1..(MaxTaskMappings - 1)}
        led   == walks \cup {<<6>> \o w : w \in walks} \cup {Append(w, 6) : w \in walks}
    IN  {ForwardPath(w) : w \in led} \cup {ReversePath(w) : w \in led}

InitRef ==
    /\ \E refPath \in ReferencePaths : paths = <<refPath>>
    /\ site = <<>> /\ min_recurrence = 0 /\ order = <<>>
    /\ results = <<>> /\ to_return = <<>> /\ pc = "idle" /\ given = <<>>
    /\ superbubble_paths = <<>> /\ index = <<>> /\ contig_name = "" /\ length_override = 0
    /\ vcf_header = <<>> /\ variant = <<>> /\ vpc = "trace"
    /\ GenoIdle /\ RunIdle /\ CountIdle

SpecRef == InitRef /\ [][BuildReferenceIndex]_vars

=============================================================================
